---- MODULE Spec2Model ----
(***************************************************************************)
(* Codexia backend: the project orchestrator (orchestrateProjectTransform) *)
(* in its two revisions under src/utils, the single-output orchestrator of *)
(* codeTransformers.js and the multi-file orchestrator of                  *)
(* multiFileOrchestrator.js, with the sanitizer, the manifest updater and  *)
(* the global synthesis pass they call.                                    *)
(* Further sections hold the functions checked on their own (the oracle    *)
(* client, the file classifier, the sanitizer, the project context, the    *)
(* token stream, the options, the shell, the chunker, the validator, the  *)
(* event stream of the transformed code, the navigation graph) and the     *)
(* attempt cycle of the other revisions of the orchestrator.               *)
(*                                                                         *)
(* Text is modelled as a sequence of tokens (words, braces, fence marks,   *)
(* file markers): a whole-word regular expression of the source is a test  *)
(* on one token, a replacement a map over the tokens.                      *)
(***************************************************************************)
EXTENDS Integers, Sequences, FiniteSets, TLC

\* while (!verified && attempts < 3)
MaxAttempts == 3

\* Longest list of input files of a run of the single-output orchestrator.
MaxFiles == 3

\* Longest list of input files of a run of the multi-file orchestrator.
MaxMultiFiles == 1

\* tail.length > 15
TailLimit == 15

----------------------------------------------------------------------------
(* Generic sequence helpers *)

\* Smallest index >= from of s whose token is in S, or 0.
RECURSIVE IndexIn(_, _, _)
IndexIn(s, S, from) ==
    IF from > Len(s) THEN 0
    ELSE IF s[from] \in S THEN from
    ELSE IndexIn(s, S, from + 1)

\* Largest index of s whose token is in S, or 0.
RECURSIVE LastIndexIn(_, _, _)
LastIndexIn(s, S, upto) ==
    IF upto < 1 THEN 0
    ELSE IF s[upto] \in S THEN upto
    ELSE LastIndexIn(s, S, upto - 1)

Range(s) == {s[i] : i \in 1..Len(s)}

\* s without its tokens lo..hi.
Without(s, lo, hi) == SubSeq(s, 1, lo - 1) \o SubSeq(s, hi + 1, Len(s))

----------------------------------------------------------------------------
(* Tokens *)

\* The markdown fence (three backquotes): bare, with the language tag swift,
\* and with a tag that is none of swift, kotlin, json, text.
BareFence == "<fence>"
TaggedFence == "<fence>swift"
UnknownTagFence == "<fence>lang"
Fences == {BareFence, TaggedFence, UnknownTagFence}

\* What match.replace(/<fence>(swift|kotlin|json|text)?/gi, '') leaves of the
\* fence that opens a block.
OpeningRest(f) == IF f = UnknownTagFence THEN <<"lang">> ELSE <<>>

\* What stays of the fence that closes a block: the match ends with its
\* three backquotes, so a tag after them is outside the match.
ClosingRest(f) ==
    CASE f = TaggedFence -> <<"swift">>
      [] f = UnknownTagFence -> <<"lang">>
      [] OTHER -> <<>>

\* "// MARK: - FILE: <path>" lines of a multi-file oracle output.
Markers == {"//MARK:Models.swift", "//MARK:Views.swift"}

MarkerPath(m) == IF m = "//MARK:Models.swift" THEN "Models.swift" ELSE "Views.swift"

\* Tokens that are not matched by \w+.
NonWords == Fences \cup Markers \cup {"{", "}", ":", "->", "@Model", "helps!", "Engine:"}

IsWord(t) == t \notin NonWords

\* Number of characters of a token (for tail.length).
TokenLen(t) ==
    CASE t \in {"{", "}", ":", "X"} -> 1
      [] t \in {"->", "is"} -> 2
      [] t \in {"Int", "the", "fun", "Foo"} -> 3
      [] t \in {"Here", "Hope", "this", "Done", "code", "User", "Long", "Bool", "func", "Unit", "Void", "data", "lang"} -> 4
      [] t \in {"class", "final", "Int64", "Float"} -> 5
      [] t \in {"struct", "import", "helps!", "@Model"} -> 6
      [] t \in {"Account", "Profile", "Boolean", "CGFloat", "SwiftUI", "Codexia", "Engine:", "chatter"} -> 7
      [] t \in {"Internal"} -> 8
      [] t \in {"UserModel", "SwiftData"} -> 9
      [] OTHER -> 10

\* Characters of the tokens s[from..] joined by single blanks.
RECURSIVE TextLen(_, _)
TextLen(s, from) ==
    IF from > Len(s) THEN 0
    ELSE TokenLen(s[from]) + (IF from < Len(s) THEN 1 ELSE 0) + TextLen(s, from + 1)

----------------------------------------------------------------------------
(* Sanitizer: sanitizeOutput (codeTransformers.js) and sanitizeCode        *)
(* (multiFileOrchestrator.js)                                               *)

\* text.replace(/<fence>[\s\S]*?<fence>/g, m => m without its fences): the
\* fences are removed in pairs, an unpaired last fence stays; a closing
\* fence that carries a tag leaves the tag behind as a word.
RECURSIVE StripFences(_)
StripFences(s) ==
    LET i == IndexIn(s, Fences, 1)
        j == IF i = 0 THEN 0 ELSE IndexIn(s, Fences, i + 1)
    IN  IF i = 0 \/ j = 0 THEN s
        ELSE SubSeq(s, 1, i - 1) \o OpeningRest(s[i]) \o SubSeq(s, i + 1, j - 1)
             \o ClosingRest(s[j])
             \o StripFences(SubSeq(s, j + 1, Len(s)))

ImportedModules == {"SwiftData", "SwiftUI", "Foundation", "Combine"}

\* One of the swiftKeywords patterns matches at token i. (\b@Model\b needs a
\* word character right before the @, so it matches no token.)
IsAnchorAt(s, i) ==
    \/ s[i] \in {"struct", "class", "protocol"}
    \/ s[i] = "import" /\ i < Len(s) /\ s[i + 1] \in ImportedModules
    \/ s[i] = "final" /\ i < Len(s) /\ s[i + 1] = "class"

\* firstMatchIndex: the earliest anchor, or 0.
RECURSIVE FirstAnchor(_, _)
FirstAnchor(s, from) ==
    IF from > Len(s) THEN 0
    ELSE IF IsAnchorAt(s, from) THEN from
    ELSE FirstAnchor(s, from + 1)

\* if (firstMatchIndex !== -1) clean = clean.substring(firstMatchIndex)
CutPreamble(s) ==
    LET a == FirstAnchor(s, 1)
    IN  IF a = 0 THEN s ELSE SubSeq(s, a, Len(s))

\* The tail after the last closing brace is dropped when it is longer than
\* 15 characters and holds neither import nor func.
CutTail(s) ==
    LET lastBrace == LastIndexIn(s, {"}"}, Len(s))
    IN  IF lastBrace = 0 THEN s
        ELSE IF /\ TextLen(s, lastBrace + 1) > TailLimit
                /\ \A k \in (lastBrace + 1)..Len(s) : s[k] \notin {"import", "func"}
             THEN SubSeq(s, 1, lastBrace)
             ELSE s

\* clean.replace(/data class/g, 'struct'), from token i on.
RECURSIVE ReplaceDataClassFrom(_, _)
ReplaceDataClassFrom(s, i) ==
    IF i > Len(s) THEN <<>>
    ELSE IF i < Len(s) /\ s[i] = "data" /\ s[i + 1] = "class"
         THEN <<"struct">> \o ReplaceDataClassFrom(s, i + 2)
         ELSE <<s[i]>> \o ReplaceDataClassFrom(s, i + 1)

ReplaceDataClass(s) == ReplaceDataClassFrom(s, 1)

\* The index of the brace that closes a UserModel definition starting at
\* token p ([@Model] [final] class|struct UserModel { ... }), or 0.
UserModelEnd(s, p) ==
    LET q1 == IF s[p] = "@Model" THEN p + 1 ELSE p
        q2 == IF q1 <= Len(s) /\ s[q1] = "final" THEN q1 + 1 ELSE q1
    IN  IF /\ q2 + 2 <= Len(s)
           /\ s[q2] \in {"class", "struct"}
           /\ s[q2 + 1] = "UserModel"
           /\ s[q2 + 2] = "{"
        THEN IndexIn(s, {"}"}, q2 + 3)
        ELSE 0

\* clean.replace(/(?:@Model\s+)?(?:final\s+)?(?:class|struct)\s+UserModel...\{[\s\S]*?\}/g, '')
RECURSIVE RemoveUserModel(_, _)
RemoveUserModel(s, p) ==
    IF p > Len(s) THEN s
    ELSE IF UserModelEnd(s, p) # 0
         THEN RemoveUserModel(Without(s, p, UserModelEnd(s, p)), p)
         ELSE RemoveUserModel(s, p + 1)

\* filePath.includes("UserEntity.kt")
IsUserEntityPath(path) == path = "UserEntity.kt"

\* if (clean.includes('@Model') && !clean.includes('import SwiftData')) ...
PrependSwiftData(s) ==
    IF /\ "@Model" \in Range(s)
       /\ ~ \E i \in 1..(Len(s) - 1) : s[i] = "import" /\ s[i + 1] = "SwiftData"
    THEN <<"import", "SwiftData">> \o s
    ELSE s

\* Steps 2 to 4 and the post-processing shared by the two sanitizers: cut
\* the preamble, cut the tail, strip the Kotlin leftovers, drop UserModel
\* definitions outside UserEntity.kt, add the SwiftData import. Each step
\* works on the value the step before produced.
CleanCode(clean, filePath) ==
    CHOOSE out \in
        { PrependSwiftData(c) :
            c \in { IF IsUserEntityPath(filePath) THEN b ELSE RemoveUserModel(b, 1) :
                b \in { ReplaceDataClass(a) :
                    a \in { CutTail(p) : p \in {CutPreamble(clean)} } } } } : TRUE

\* sanitizeOutput(text, filePath) of the single-output orchestrator. Its
\* rules for the paths UserApi.kt and UserListActivity.kt are left out: no
\* input file of the model has such a path.
sanitizeOutput(text, filePath) ==
    IF text = <<>> THEN <<>>
    ELSE CHOOSE out \in { CleanCode(clean, filePath) : clean \in {StripFences(text)} } : TRUE

\* sanitizeOutput(text) of unnamed/part_008: the same steps without the
\* post-processing by file path.
sanitizeOutputV2(text) ==
    IF text = <<>> THEN <<>>
    ELSE CHOOSE out \in
            { PrependSwiftData(c) :
                c \in { ReplaceDataClass(a) :
                    a \in { CutTail(p) :
                        p \in { CutPreamble(clean) : clean \in {StripFences(text)} } } } } : TRUE

\* sanitizeCode(text, filePath) of the multi-file orchestrator: the fences
\* were already stripped by its caller.
sanitizeCode(text, filePath) ==
    IF text = <<>> THEN <<>>
    ELSE CleanCode(text, filePath)

----------------------------------------------------------------------------
(* Multi-file parser: parseGeneratedOutput (multiFileOrchestrator.js)      *)

\* inferPath: the input path with its extension replaced by .swift
\* (path.replace(/\.kt$|\.java$/, '.swift'), also the export path of the
\* single-output manifest).
SwiftPath(path) ==
    CASE path = "UserEntity.kt" -> "UserEntity.swift"
      [] path = "Account.kt" -> "Account.swift"
      [] path = "Util.kt" -> "Util.swift"
      [] OTHER -> path

\* The files that follow the markers of text from index from on: each is
\* the text between its marker and the next one; a marker with no text is
\* skipped.
RECURSIVE FilesAfterMarkers(_, _)
FilesAfterMarkers(text, from) ==
    IF from = 0 THEN <<>>
    ELSE LET next == IndexIn(text, Markers, from + 1)
             endIdx == IF next = 0 THEN Len(text) ELSE next - 1
             content == SubSeq(text, from + 1, endIdx)
         IN  (IF content # <<>>
              THEN <<[path |-> MarkerPath(text[from]), content |-> content]>>
              ELSE <<>>)
             \o FilesAfterMarkers(text, next)

parseGeneratedOutput(text, inputFilePath) ==
    IF text = <<>> THEN <<>>
    ELSE IF IndexIn(text, Markers, 1) = 0
         THEN <<[path |-> SwiftPath(inputFilePath), content |-> text]>>
         ELSE FilesAfterMarkers(text, IndexIn(text, Markers, 1))

----------------------------------------------------------------------------
(* Manifest: updateManifest                                                *)

\* The name captured by the first match of /(?:KEYWORDS)\s+(\w+)/ in s, or
\* "" when the pattern matches nowhere.
RECURSIVE FirstDeclared(_, _, _)
FirstDeclared(s, keywords, from) ==
    IF from >= Len(s) THEN ""
    ELSE IF s[from] \in keywords /\ IsWord(s[from + 1]) THEN s[from + 1]
    ELSE FirstDeclared(s, keywords, from + 1)

\* original.match(/(?:class|interface|data class|object)\s+(\w+)/)
ktMatch(original) == FirstDeclared(original, {"class", "interface", "object"}, 1)

\* transformed.match(/(?:class|struct|protocol|enum)\s+(\w+)/)
swiftMatch(transformed) == FirstDeclared(transformed, {"class", "struct", "protocol", "enum"}, 1)

\* An object of the program is a sequence of [key, value] entries in
\* insertion order, as Object.entries lists them.
Keys(obj) == {obj[i].key : i \in 1..Len(obj)}

HasKey(obj, k) == k \in Keys(obj)

Get(obj, k) == LET i == CHOOSE i \in 1..Len(obj) : obj[i].key = k IN obj[i].value

\* A faulty assignment that replaces the whole object by the one entry.
SetKeyMutant(obj, k, v) == <<[key |-> k, value |-> v]>>

\* obj[k] = v: an existing key keeps its place and takes the new value.
SetKey(obj, k, v) ==
    IF HasKey(obj, k)
    THEN [i \in 1..Len(obj) |-> IF obj[i].key = k THEN [key |-> k, value |-> v] ELSE obj[i]]
    ELSE Append(obj, [key |-> k, value |-> v])

EmptyManifest == [mappings |-> <<>>, definitions |-> <<>>, fileExports |-> <<>>]

\* A faulty body that pushes the name without looking whether it is there.
RecordNamesMutant(manifest, ktName, swiftName, exportPath) ==
    [mappings |-> SetKey(manifest.mappings, ktName, swiftName),
     definitions |-> Append(manifest.definitions, swiftName),
     fileExports |-> SetKey(manifest.fileExports, swiftName, exportPath)]

\* The body of updateManifest after the two names were matched.
RecordNames(manifest, ktName, swiftName, exportPath) ==
    [mappings |-> SetKey(manifest.mappings, ktName, swiftName),
     definitions |-> IF swiftName \in Range(manifest.definitions)
                     THEN manifest.definitions
                     ELSE Append(manifest.definitions, swiftName),
     fileExports |-> SetKey(manifest.fileExports, swiftName, exportPath)]

\* updateManifest(filePath, original, transformed, manifest) of the
\* single-output orchestrator.
updateManifest(filePath, original, transformed, manifest) ==
    IF ktMatch(original) # "" /\ swiftMatch(transformed) # ""
    THEN RecordNames(manifest, ktMatch(original), swiftMatch(transformed), SwiftPath(filePath))
    ELSE manifest

\* path.join('ios_output', p)
IosOutput(p) == <<"ios_output", p>>

\* updateManifest(inputFilePath, outputFilePath, original, transformed,
\* manifest) of the multi-file orchestrator.
updateManifestMulti(inputFilePath, outputFilePath, original, transformed, manifest) ==
    IF ktMatch(original) # "" /\ swiftMatch(transformed) # ""
    THEN RecordNames(manifest, ktMatch(original), swiftMatch(transformed), IosOutput(outputFilePath))
    ELSE manifest

----------------------------------------------------------------------------
(* Global synthesis pass                                                   *)

\* content.replace(new RegExp(`\\b${ktName}\\b`, 'g'), swiftName)
ReplaceWord(content, ktName, swiftName) ==
    [i \in 1..Len(content) |-> IF content[i] = ktName THEN swiftName ELSE content[i]]

\* for (const [ktName, swiftName] of Object.entries(mappings)) ...: one
\* replacement after the other, each on the output of the one before.
RECURSIVE RenameAll(_, _, _)
RenameAll(content, mappings, i) ==
    IF i > Len(mappings) THEN content
    ELSE RenameAll(ReplaceWord(content, mappings[i].key, mappings[i].value), mappings, i + 1)

\* .replace(/\bBoolean\b/g, 'Bool') ... .replace(/\bFloat\b/g, 'CGFloat');
\* /\bInt\b\?/ -> 'Int?' changes nothing.
NormalizeWord(t) ==
    CASE t = "Boolean" -> "Bool"
      [] t = "Long" -> "Int64"
      [] t = "Float" -> "CGFloat"
      [] OTHER -> t

\* .replace(/:\s*Unit/g, ' -> Void'), from token i on.
RECURSIVE ReplaceUnitFrom(_, _)
ReplaceUnitFrom(s, i) ==
    IF i > Len(s) THEN <<>>
    ELSE IF i < Len(s) /\ s[i] = ":" /\ s[i + 1] = "Unit"
         THEN <<"->", "Void">> \o ReplaceUnitFrom(s, i + 2)
         ELSE <<s[i]>> \o ReplaceUnitFrom(s, i + 1)

NormalizeTypes(content) ==
    ReplaceUnitFrom([i \in 1..Len(content) |-> NormalizeWord(content[i])], 1)

\* The body of results.map(res => ...) for one result's content.
SynthesizeContent(content, mappings) ==
    NormalizeTypes(RenameAll(content, mappings, 1))

\* results.map(res => ({ ...res, transformedContent: content }))
Synthesize(rs, mappings) ==
    [i \in 1..Len(rs) |->
        [rs[i] EXCEPT !.transformedContent = SynthesizeContent(rs[i].transformedContent, mappings)]]

----------------------------------------------------------------------------
(* Inputs of a run *)

\* The input files a run may be given: path and Kotlin content.
FileMenu ==
    { [path |-> "UserEntity.kt", content |-> <<"data", "class", "User">>],
      [path |-> "Account.kt", content |-> <<"class", "Account">>],
      [path |-> "Util.kt", content |-> <<"fun", "helper">>] }

FileLists(max) == UNION { [1..n -> FileMenu] : n \in 1..max }

\* The content of a file object that has no content field.
Undefined == <<"undefined">>

\* A malformed input file: a path and no content.
BrokenFile == [path |-> "Broken.kt", content |-> Undefined]

\* Input lists that may hold malformed files.
FileListsWithBroken(max) == UNION { [1..n -> FileMenu \cup {BrokenFile}] : n \in 1..max }

\* file.content.includes(lib) is defined.
HasContent(file) == file.content # Undefined

\* runInternalEngine(messages): the marked placeholder built from the
\* request, here from the file content the request carries.
runInternalEngine(content) == <<"Codexia", "Internal", "Engine:">> \o content

\* What transformCode may resolve to for a file: nothing, fenced code with
\* chatter around it, bare code, a UserModel definition, a multi-file
\* answer, or the placeholder of the fallback engine when the oracle is
\* unreachable or timed out.
RawOutputs(file) ==
    { <<>>,
      <<TaggedFence, "struct", "Account", "{", "User", "}", BareFence, "Hope", "this", "helps!">>,
      <<"struct", "Profile", "{", "Account", "Long", "}">>,
      <<"struct", "UserModel", "{", "User", "}">>,
      <<"//MARK:Models.swift", "struct", "Account", "{", "}",
        "//MARK:Views.swift", "struct", "Profile", "{", "User", "}">>,
      runInternalEngine(file.content) }

\* What transformCode may resolve to in the multi-file orchestrator: the
\* outputs of RawOutputs, or an answer of two files of which the first
\* holds nothing but a UserModel definition.
MultiOutputs(file) ==
    RawOutputs(file) \cup
    { <<"//MARK:Models.swift", "struct", "UserModel", "{", "User", "}",
        "//MARK:Views.swift", "struct", "Profile", "{", "}">> }

\* What verifySwiftCode may return: success, or a failure with the
\* compiler's diagnostic.
Diagnostics == {"E1", "E2"}

Validations ==
    {[success |-> TRUE, error |-> ""]} \cup {[success |-> FALSE, error |-> e] : e \in Diagnostics}

----------------------------------------------------------------------------
(* State of a run of orchestrateProjectTransform(files, baseInstructions)  *)

VARIABLES
    variant,             \* which orchestrator runs ("single": codeTransformers.js,
                         \* "multi": multiFileOrchestrator.js, ...) or which function is called
    files,               \* the input files
    pc,                  \* where the run stands
    idx,                 \* position of the for loop in files
    verified,            \* locals of the loop body
    attempts,
    transformedContent,
    currentInstructions, \* the notes appended to baseInstructions so far
    projectManifest,
    results,
    finalizedProject,    \* the files of the returned object
    request,             \* what the pending call of transformCode carries
    batch,               \* locals of one attempt of the multi-file orchestrator
    passed,              \* history: the compiler oracle accepted a candidate in this cycle
    attemptManifest,     \* history: the manifest when the current attempt began
    writes,              \* history: the manifest entries written, with the writing file
    synthRuns,           \* history: how often the synthesis pass ran
    outcomes,            \* history: for each finished cycle, whether it ended verified
    raised,              \* history: the files whose cycle raised an exception
    lane,                \* the parallel lane: its manifest snapshot and its cycles
    callArgs,            \* the arguments of a function called on its own
    callResult,          \* what that call returned
    rawOutput,           \* local of the loop body: what transformCode returned
    diagnostics          \* history: the diagnostics of the file's failed validations

vars == <<variant, files, pc, idx, verified, attempts, transformedContent,
          currentInstructions, projectManifest, results, finalizedProject, request,
          batch, passed, attemptManifest, writes, synthRuns, outcomes,
          raised, lane, callArgs, callResult, rawOutput, diagnostics>>

\* No function is called on its own.
NoCall == [fn |-> "none"]

NoRequest == [file |-> 0, mappings |-> <<>>, definitions |-> <<>>, instructions |-> <<>>]

\* No parallel lane was started.
NoLane == [snapshot |-> EmptyManifest, cycles |-> <<>>]

NoBatch == [extractedFiles |-> <<>>, k |-> 0, sanitizedContent |-> <<>>,
            currentBatchResults |-> <<>>, batchVerified |-> TRUE, validationErrors |-> <<>>]

\* let verified = false; let attempts = 0; let transformedContent = "";
\* let currentInstructions = baseInstructions;
CycleStart ==
    /\ idx = 1
    /\ verified = FALSE
    /\ attempts = 0
    /\ transformedContent = <<>>
    /\ currentInstructions = <<>>
    /\ results = <<>>
    /\ finalizedProject = <<>>
    /\ request = NoRequest
    /\ batch = NoBatch
    /\ passed = FALSE
    /\ attemptManifest = EmptyManifest
    /\ writes = {}
    /\ synthRuns = 0
    /\ outcomes = <<>>
    /\ raised = {}
    /\ callArgs = NoCall
    /\ callResult = NoCall
    /\ rawOutput = <<>>
    /\ diagnostics = <<>>

\* let projectManifest = { mappings: {}, definitions: [], fileExports: {} }
RunStart ==
    /\ pc = "loop"
    /\ projectManifest = EmptyManifest
    /\ lane = NoLane
    /\ CycleStart

Init ==
    /\ variant \in {"single", "multi"}
    /\ files \in FileLists(IF variant = "single" THEN MaxFiles ELSE MaxMultiFiles)
    /\ RunStart

\* A faulty loop condition that goes on after the file is verified.
LoopIgnoresVerifiedMutant(v, a) == a < MaxAttempts

\* A faulty loop condition that gives up one attempt early.
LoopContinuesMutant(v, a) == ~v /\ a < MaxAttempts - 1

\* while (!verified && attempts < 3)
LoopContinues(v, a) == ~v /\ a < MaxAttempts

\* A faulty counter that never counts an attempt.
NextAttemptMutant(a) == a

\* attempts++
NextAttempt(a) == a + 1

\* A faulty loop body that carries the repair notes over to the next file.
InstructionsForNextFileMutant(current) == current

\* let currentInstructions = baseInstructions; at the head of the body of
\* the for loop: the notes of the file before are gone.
InstructionsForNextFile(current) == <<>>

\* A faulty iteration that leaves the for loop before the last file.
HasFileMutant(i, fs) == i < Len(fs)

\* for (const file of files): there is a file left.
HasFile(i, fs) == i <= Len(fs)

\* A faulty iteration that leaves the for loop when a file is exhausted.
NextFileMutant(i) == IF verified THEN i + 1 ELSE Len(files) + 1

\* for (const file of files): on to the next file.
NextFile(i) == i + 1

\* The entry a manifest update for file i writes, as a history record.
Written(i, original, transformed) ==
    IF ktMatch(original) # "" /\ swiftMatch(transformed) # ""
    THEN {[file |-> i, key |-> ktMatch(original), value |-> swiftMatch(transformed)]}
    ELSE {}

\* The head of the while loop up to the call of transformCode: the attempt
\* is counted and the request is built from the manifest as it stands.
BeginAttempt ==
    /\ pc = "loop"
    /\ HasFile(idx, files)
    /\ HasContent(files[idx])
    /\ LoopContinues(verified, attempts)
    /\ attempts' = NextAttempt(attempts)
    /\ request' = [file |-> idx,
                   mappings |-> projectManifest.mappings,
                   definitions |-> projectManifest.definitions,
                   instructions |-> currentInstructions]
    /\ attemptManifest' = projectManifest
    /\ pc' = "oracle"
    /\ UNCHANGED <<variant, files, idx, verified, transformedContent, currentInstructions,
                   projectManifest, results, finalizedProject, batch, passed,
                   writes, synthRuns, outcomes, raised, lane,
                   callArgs, callResult, rawOutput, diagnostics>>

\* The orchestrators that take one output from an attempt: the one of
\* codeTransformers.js and its older revision unnamed/part_007.
SingleOutput == {"single", "part_007"}

\* The two revisions of runTitanTransformation: utils/titanOrchestrator.js
\* and utils/_legacy_titan/titanOrchestrator.js.
Titans == {"titan", "legacy_titan"}

\* transformedContent.replace(/<fence>swift|<fence>|<fence>kotlin/gi, '') of
\* unnamed/part_007, from token i on: every fence goes, with its tag when
\* the tag is swift; another tag stays behind as a word.
RECURSIVE StripFenceMarks(_, _)
StripFenceMarks(s, i) ==
    IF i > Len(s) THEN <<>>
    ELSE (CASE s[i] = UnknownTagFence -> <<"lang">>
            [] s[i] \in Fences -> <<>>
            [] OTHER -> <<s[i]>>) \o StripFenceMarks(s, i + 1)

\* What the loop body makes of the oracle's output before the compiler
\* sees it: sanitizeOutput(rawOutput, file.path) in codeTransformers.js,
\* the removal of the fence marks in unnamed/part_007.
Cleaned(v, raw, path) ==
    IF v = "part_007" THEN StripFenceMarks(raw, 1) ELSE sanitizeOutput(raw, path)

\* A faulty loop body that hands an empty output to the compiler.
AfterSanitizeMutant(v, content) == "validate"

\* if (!transformedContent) { ...; continue; } of codeTransformers.js;
\* unnamed/part_007 has no such test and goes on to verifySwiftCode.
AfterSanitize(v, content) == IF v = "single" /\ content = <<>> THEN "loop" ELSE "validate"

\* Single-output orchestrator: transformCode resolved; the output is
\* sanitized, and an empty result ends the attempt (continue).
OracleReturn ==
    /\ pc = "oracle"
    /\ variant \in SingleOutput
    /\ \E raw \in RawOutputs(files[idx]) :
         /\ transformedContent' = Cleaned(variant, raw, files[idx].path)
         /\ pc' = AfterSanitize(variant, transformedContent')
         /\ rawOutput' = IF pc' = "loop" THEN <<>> ELSE raw
    /\ request' = NoRequest
    /\ UNCHANGED <<variant, files, idx, verified, attempts, currentInstructions,
                   projectManifest, results, finalizedProject, batch, passed,
                   attemptManifest, writes, synthRuns, outcomes, raised, lane,
                   callArgs, callResult, diagnostics>>

\* Single-output orchestrator: verifySwiftCode returned.
ValidateReturn ==
    /\ pc = "validate"
    /\ variant \in SingleOutput
    /\ \E validation \in Validations :
         IF validation.success
         THEN /\ verified' = TRUE
              /\ projectManifest' = updateManifest(files[idx].path, files[idx].content,
                                                   transformedContent, projectManifest)
              /\ passed' = TRUE
              /\ writes' = writes \cup Written(idx, files[idx].content, transformedContent)
              /\ UNCHANGED <<currentInstructions, diagnostics>>
         ELSE /\ currentInstructions' = Append(currentInstructions, validation.error)
              /\ diagnostics' = Append(diagnostics, validation.error)
              /\ UNCHANGED <<verified, projectManifest, passed, writes>>
    /\ pc' = "loop"
    /\ rawOutput' = <<>>
    /\ UNCHANGED <<variant, files, idx, attempts, transformedContent, results,
                   finalizedProject, request, batch, attemptManifest, synthRuns,
                   outcomes, raised, lane,
                   callArgs, callResult>>

\* Single-output orchestrator: the while loop is left, the file's result
\* is pushed and the for loop moves on.
EndCycle ==
    /\ pc = "loop"
    /\ variant \in SingleOutput
    /\ HasFile(idx, files)
    /\ ~LoopContinues(verified, attempts)
    /\ results' = Append(results, [path |-> files[idx].path,
                                   transformedContent |-> transformedContent,
                                   verified |-> verified])
    /\ idx' = NextFile(idx)
    /\ outcomes' = Append(outcomes, verified)
    /\ verified' = FALSE
    /\ attempts' = 0
    /\ transformedContent' = <<>>
    /\ currentInstructions' = InstructionsForNextFile(currentInstructions)
    /\ passed' = FALSE
    /\ attemptManifest' = projectManifest
    /\ diagnostics' = <<>>
    /\ UNCHANGED <<variant, files, pc, projectManifest, finalizedProject, request, batch,
                   writes, synthRuns, raised, lane,
                   callArgs, callResult, rawOutput>>

\* Multi-file orchestrator: transformCode resolved; the fences are stripped
\* and the output is split into the files it holds.
MultiOracleReturn ==
    /\ pc = "oracle"
    /\ variant = "multi"
    /\ \E raw \in MultiOutputs(files[idx]) :
         LET extractedFiles == parseGeneratedOutput(StripFences(raw), files[idx].path)
         IN  /\ batch' = [extractedFiles |-> extractedFiles,
                          k |-> 1,
                          sanitizedContent |-> <<>>,
                          currentBatchResults |-> <<>>,
                          batchVerified |-> (extractedFiles # <<>>),
                          validationErrors |-> <<>>]
             /\ rawOutput' = raw
    /\ pc' = "extract"
    /\ request' = NoRequest
    /\ UNCHANGED <<variant, files, idx, verified, attempts, transformedContent,
                   currentInstructions, projectManifest, results, finalizedProject,
                   passed, attemptManifest, writes, synthRuns, outcomes, raised, lane,
                   callArgs, callResult, diagnostics>>

\* Multi-file orchestrator: the next extracted file is sanitized,
\* const sanitizedContent = sanitizeCode(extracted.content, extracted.path || file.path)
\* and goes to verifySwiftCode, unless nothing is left of it (continue).
MultiSanitize ==
    /\ pc = "extract"
    /\ batch.k <= Len(batch.extractedFiles)
    /\ \E extracted \in {batch.extractedFiles[batch.k]} :
         \E sanitizedContent \in {sanitizeCode(extracted.content, extracted.path)} :
            IF sanitizedContent = <<>>
            THEN /\ batch' = [batch EXCEPT !.k = @ + 1]
                 /\ pc' = "extract"
            ELSE /\ batch' = [batch EXCEPT !.sanitizedContent = sanitizedContent]
                 /\ pc' = "validate"
    /\ UNCHANGED <<variant, files, idx, verified, attempts, transformedContent,
                   currentInstructions, projectManifest, results, finalizedProject,
                   request, passed, attemptManifest, writes, synthRuns, outcomes, raised, lane,
                   callArgs, callResult, rawOutput, diagnostics>>

\* Multi-file orchestrator: verifySwiftCode returned for the extracted file.
MultiValidateReturn ==
    /\ pc = "validate"
    /\ variant = "multi"
    /\ LET extracted == batch.extractedFiles[batch.k]
           sanitizedContent == batch.sanitizedContent
       IN  \E validation \in Validations :
             IF validation.success
             THEN /\ batch' = [batch EXCEPT
                                 !.k = @ + 1,
                                 !.sanitizedContent = <<>>,
                                 !.currentBatchResults =
                                     Append(@, [path |-> extracted.path,
                                                content |-> sanitizedContent])]
                  /\ projectManifest' =
                         updateManifestMulti(files[idx].path, extracted.path,
                                             files[idx].content, sanitizedContent,
                                             projectManifest)
                  /\ writes' = writes \cup Written(idx, files[idx].content, sanitizedContent)
                  /\ passed' = TRUE
                  /\ UNCHANGED diagnostics
             ELSE /\ diagnostics' = Append(diagnostics, validation.error)
                  /\ batch' = [batch EXCEPT
                                 !.k = @ + 1,
                                 !.sanitizedContent = <<>>,
                                 !.batchVerified = FALSE,
                                 !.validationErrors =
                                     Append(@, [path |-> extracted.path,
                                                error |-> validation.error])]
                  /\ UNCHANGED <<projectManifest, writes, passed>>
    /\ pc' = "extract"
    /\ UNCHANGED <<variant, files, idx, verified, attempts, transformedContent,
                   currentInstructions, results, finalizedProject, request,
                   attemptManifest, synthRuns, outcomes, raised, lane,
                   callArgs, callResult, rawOutput>>

\* The results the multi-file orchestrator pushes for a verified attempt.
BatchResults(rs) ==
    [i \in 1..Len(rs) |-> [path |-> IosOutput(rs[i].path),
                           transformedContent |-> rs[i].content,
                           verified |-> TRUE]]

\* Multi-file orchestrator: all extracted files were seen; the attempt is
\* verified and its results are pushed, or a repair note is appended.
MultiConclude ==
    /\ pc = "extract"
    /\ batch.k > Len(batch.extractedFiles)
    /\ IF batch.batchVerified /\ Len(batch.currentBatchResults) > 0
       THEN /\ verified' = TRUE
            /\ results' = results \o BatchResults(batch.currentBatchResults)
            /\ UNCHANGED currentInstructions
       ELSE /\ currentInstructions' =
                   Append(currentInstructions,
                          IF Len(batch.validationErrors) > 0
                          THEN batch.validationErrors
                          ELSE <<[path |-> "", error |-> "empty or invalid format"]>>)
            /\ UNCHANGED <<verified, results>>
    /\ batch' = NoBatch
    /\ pc' = "loop"
    /\ rawOutput' = <<>>
    /\ UNCHANGED <<variant, files, idx, attempts, transformedContent, projectManifest,
                   finalizedProject, request, passed, attemptManifest, writes, synthRuns,
                   outcomes, raised, lane,
                   callArgs, callResult, diagnostics>>

\* Multi-file orchestrator: the while loop is left and the for loop moves
\* on; nothing is pushed here.
MultiEndCycle ==
    /\ pc = "loop"
    /\ variant = "multi"
    /\ HasFile(idx, files)
    /\ ~LoopContinues(verified, attempts)
    /\ idx' = NextFile(idx)
    /\ outcomes' = Append(outcomes, verified)
    /\ verified' = FALSE
    /\ attempts' = 0
    /\ currentInstructions' = InstructionsForNextFile(currentInstructions)
    /\ passed' = FALSE
    /\ attemptManifest' = projectManifest
    /\ diagnostics' = <<>>
    /\ UNCHANGED <<variant, files, pc, transformedContent, projectManifest, results,
                   finalizedProject, request, batch, writes, synthRuns, raised, lane,
                   callArgs, callResult, rawOutput>>

\* The global synthesis pass and the return, once the for loop is over.
GlobalSynthesis ==
    /\ pc = "loop"
    /\ variant \notin Titans
    /\ ~HasFile(idx, files)
    /\ \E rs \in {results}, mappings \in {projectManifest.mappings} :
         finalizedProject' = Synthesize(rs, mappings)
    /\ synthRuns' = synthRuns + 1
    /\ pc' = "done"
    /\ UNCHANGED <<variant, files, idx, verified, attempts, transformedContent,
                   currentInstructions, projectManifest, results, request, batch,
                   passed, attemptManifest, writes, outcomes, raised, lane,
                   callArgs, callResult, rawOutput, diagnostics>>

Next ==
    \/ BeginAttempt
    \/ OracleReturn
    \/ ValidateReturn
    \/ EndCycle
    \/ MultiOracleReturn
    \/ MultiSanitize
    \/ MultiValidateReturn
    \/ MultiConclude
    \/ MultiEndCycle
    \/ GlobalSynthesis

Spec == Init /\ [][Next]_vars

\* Every step of the run is taken by the event loop once it is enabled: the
\* oracle call carries a timeout and the validator runs synchronously.
FairSpec == Spec /\ WF_vars(Next)

----------------------------------------------------------------------------
(* Runs on input lists that may hold malformed files                       *)

InitWithBroken ==
    /\ variant \in {"single", "multi"}
    /\ files \in FileListsWithBroken(IF variant = "single" THEN MaxFiles ELSE MaxMultiFiles)
    /\ RunStart

\* A faulty handler that swallows the exception and returns at once.
AfterThrowMutant == "done"

\* Where an exception raised in the loop body leaves the run: nothing
\* catches it, the promise of orchestrateProjectTransform rejects.
AfterThrow == "rejected"

\* const activeLibraries = Object.keys(LIBRARY_MAP).filter(lib => file.content.includes(lib))
\* at the head of the loop body, before the while loop, raises a TypeError
\* for a file without content.
CycleThrows ==
    /\ pc = "loop"
    /\ HasFile(idx, files)
    /\ ~HasContent(files[idx])
    /\ raised' = raised \cup {idx}
    /\ pc' = AfterThrow
    /\ UNCHANGED <<variant, files, idx, verified, attempts, transformedContent,
                   currentInstructions, projectManifest, results, finalizedProject,
                   request, batch, passed, attemptManifest, writes, synthRuns, outcomes, lane,
                   callArgs, callResult, rawOutput, diagnostics>>

NextWithBroken ==
    \/ Next
    \/ CycleThrows

SpecWithBroken == InitWithBroken /\ [][NextWithBroken]_vars

----------------------------------------------------------------------------
(* The parallel lane: one attempt cycle per file, run concurrently, each   *)
(* reading the manifest as it stood when the lane began                    *)

\* Most files of the parallel lane of a run.
MaxParallelFiles == 2

\* What the sequential lane may have committed before the parallel lane
\* begins.
CommittedManifests ==
    { EmptyManifest,
      RecordNames(EmptyManifest, "Session", "Login", "Session.swift") }

\* The cycle of a parallel file before its first attempt.
FreshCycle == [pc |-> "idle", attempts |-> 0, verified |-> FALSE,
               request |-> EmptyManifest, candidate |-> <<>>]

InitParallel ==
    /\ variant = "parallel"
    /\ files \in FileLists(MaxParallelFiles)
    /\ projectManifest \in CommittedManifests
    /\ lane = [snapshot |-> projectManifest, cycles |-> [i \in 1..Len(files) |-> FreshCycle]]
    /\ pc = "parallel"
    /\ CycleStart

\* A faulty lane that hands the live manifest to a cycle.
ManifestForRequestMutant(snapshot, live) == live

\* The manifest an oracle request of a parallel cycle carries: the
\* snapshot taken when the lane began, not the live manifest.
ManifestForRequest(snapshot, live) == snapshot

\* Cycle i starts an attempt and calls the transformation oracle.
ParallelAttempt(i) ==
    /\ pc = "parallel"
    /\ lane.cycles[i].pc = "idle"
    /\ LoopContinues(lane.cycles[i].verified, lane.cycles[i].attempts)
    /\ lane' = [lane EXCEPT !.cycles[i] =
                   [@ EXCEPT !.pc = "oracle",
                             !.attempts = NextAttempt(@),
                             !.request = ManifestForRequest(lane.snapshot, projectManifest)]]
    /\ UNCHANGED <<variant, files, pc, idx, verified, attempts, transformedContent,
                   currentInstructions, projectManifest, results, finalizedProject,
                   request, batch, passed, attemptManifest, writes, synthRuns, outcomes,
                   raised,
                   callArgs, callResult, rawOutput, diagnostics>>

\* The oracle answered cycle i: the output is sanitized, an empty result
\* is a failed attempt.
ParallelOracleReturn(i) ==
    /\ pc = "parallel"
    /\ lane.cycles[i].pc = "oracle"
    /\ \E raw \in RawOutputs(files[i]) :
         \E candidate \in {sanitizeOutput(raw, files[i].path)} :
            lane' = [lane EXCEPT !.cycles[i] =
                        [@ EXCEPT !.pc = IF candidate = <<>> THEN "idle" ELSE "validate",
                                  !.request = EmptyManifest,
                                  !.candidate = candidate]]
    /\ UNCHANGED <<variant, files, pc, idx, verified, attempts, transformedContent,
                   currentInstructions, projectManifest, results, finalizedProject,
                   request, batch, passed, attemptManifest, writes, synthRuns, outcomes,
                   raised,
                   callArgs, callResult, rawOutput, diagnostics>>

\* The compiler oracle answered cycle i: on success the cycle is verified
\* and writes the manifest, otherwise it goes on to its next attempt.
ParallelValidateReturn(i) ==
    /\ pc = "parallel"
    /\ lane.cycles[i].pc = "validate"
    /\ \E validation \in Validations :
         IF validation.success
         THEN /\ lane' = [lane EXCEPT !.cycles[i] = [@ EXCEPT !.pc = "idle", !.verified = TRUE]]
              /\ projectManifest' = updateManifest(files[i].path, files[i].content,
                                                   lane.cycles[i].candidate, projectManifest)
         ELSE /\ lane' = [lane EXCEPT !.cycles[i] = [@ EXCEPT !.pc = "idle"]]
              /\ UNCHANGED projectManifest
    /\ UNCHANGED <<variant, files, pc, idx, verified, attempts, transformedContent,
                   currentInstructions, results, finalizedProject, request, batch, passed,
                   attemptManifest, writes, synthRuns, outcomes, raised,
                   callArgs, callResult, rawOutput, diagnostics>>

\* The join: every cycle of the lane is verified or exhausted.
ParallelJoin ==
    /\ pc = "parallel"
    /\ \A i \in 1..Len(files) :
         /\ lane.cycles[i].pc = "idle"
         /\ ~LoopContinues(lane.cycles[i].verified, lane.cycles[i].attempts)
    /\ pc' = "joined"
    /\ UNCHANGED <<variant, files, idx, verified, attempts, transformedContent,
                   currentInstructions, projectManifest, results, finalizedProject,
                   request, batch, passed, attemptManifest, writes, synthRuns, outcomes,
                   raised, lane,
                   callArgs, callResult, rawOutput, diagnostics>>

NextParallel ==
    \/ \E i \in 1..Len(files) : ParallelAttempt(i)
    \/ \E i \in 1..Len(files) : ParallelOracleReturn(i)
    \/ \E i \in 1..Len(files) : ParallelValidateReturn(i)
    \/ ParallelJoin

SpecParallel == InitParallel /\ [][NextParallel]_vars

----------------------------------------------------------------------------
(* The oracle client: runCodexiaTransform(messages, options) in its three  *)
(* revisions (codexiaEngine.js, unnamed/part_018, unnamed/part_019)        *)

\* The state of the orchestrator, which takes no part in the call of a
\* function on its own.
NoRun ==
    /\ files = <<>>
    /\ projectManifest = EmptyManifest
    /\ lane = NoLane
    /\ idx = 1
    /\ verified = FALSE
    /\ attempts = 0
    /\ transformedContent = <<>>
    /\ currentInstructions = <<>>
    /\ results = <<>>
    /\ finalizedProject = <<>>
    /\ request = NoRequest
    /\ batch = NoBatch
    /\ passed = FALSE
    /\ attemptManifest = EmptyManifest
    /\ writes = {}
    /\ synthRuns = 0
    /\ outcomes = <<>>
    /\ raised = {}
    /\ rawOutput = <<>>
    /\ diagnostics = <<>>

\* Longest list of messages of a request.
MaxMessages == 2

\* The separator of messages.map(m => m.content).join("\n\n").
Blank == "<blank line>"

\* { role, content } messages of a request, as buildMessages makes them.
MessageMenu ==
    { [role |-> "system", content |-> <<"Convert", "to", "SwiftUI">>],
      [role |-> "user", content |-> <<"data", "class", "User">>],
      [role |-> "user", content |-> <<"class", "Account">>] }

MessageLists == UNION { [1..n -> MessageMenu] : n \in 1..MaxMessages }

\* messages.map(m => m.content).join("\n\n")
RECURSIVE Combined(_, _)
Combined(messages, i) ==
    IF i > Len(messages) THEN <<>>
    ELSE messages[i].content
         \o (IF i < Len(messages) THEN <<Blank>> ELSE <<>>)
         \o Combined(messages, i + 1)

\* runInternalEngine(messages) of unnamed/part_019.
runInternalEngineFallback(content) ==
    <<"//", "Codexia", "Internal", "Fallback", "Engine:">> \o content

\* What axios.post may do: resolve with a response, or reject because the
\* endpoint is unreachable or the timeout of 300000 ms has passed.
Transports == {"response", "unreachable", "timeout"}

\* response.data.choices[0].message.content of a response, '' if absent.
ResponseTexts == {<<>>, <<"struct", "Account", "{", "}">>}

Revisions == {"codexiaEngine.js", "part_018", "part_019"}

\* The promise of runCodexiaTransform: resolved with a text or rejected.
Resolved(text) == [raised |-> FALSE, text |-> text]
Rejected == [raised |-> TRUE, text |-> <<>>]

\* runCodexiaTransform(messages, options) for the environment given with
\* the call: whether LOCAL_LLM_BASE_URL is set, and what axios.post does.
runCodexiaTransform(call) ==
    LET combined == Combined(call.messages, 1)
    IN  CASE call.revision = "codexiaEngine.js" ->
                IF ~call.baseUrl THEN Resolved(runInternalEngine(combined))
                ELSE IF call.transport = "response" THEN Resolved(call.response)
                ELSE Resolved(runInternalEngine(combined))
          [] call.revision = "part_019" ->
                IF ~call.baseUrl THEN Resolved(runInternalEngineFallback(combined))
                ELSE IF call.transport = "response" THEN Resolved(call.response)
                ELSE Resolved(runInternalEngineFallback(combined))
          [] call.revision = "part_018" ->
                IF call.transport = "response" THEN Resolved(call.response)
                ELSE Rejected

InitOracleClient ==
    /\ variant = "client"
    /\ pc = "call"
    /\ NoRun
    /\ callArgs \in [fn : {"runCodexiaTransform"},
                     revision : Revisions,
                     messages : MessageLists,
                     baseUrl : BOOLEAN,
                     transport : Transports,
                     response : ResponseTexts]
    /\ callResult = NoCall

\* One call of runCodexiaTransform, from the call to its settled promise.
CallOracleClient ==
    /\ pc = "call"
    /\ callArgs.fn = "runCodexiaTransform"
    /\ callResult' = runCodexiaTransform(callArgs)
    /\ pc' = "returned"
    /\ UNCHANGED <<variant, files, idx, verified, attempts, transformedContent,
                   currentInstructions, projectManifest, results, finalizedProject,
                   request, batch, passed, attemptManifest, writes, synthRuns, outcomes,
                   raised, lane, callArgs, rawOutput, diagnostics>>

NextOracleClient ==
    \/ CallOracleClient

SpecOracleClient == InitOracleClient /\ [][NextOracleClient]_vars

----------------------------------------------------------------------------
(* The file classifier: classifyFiles(files) of utils/fileClassifier.js.   *)
(* Paths and contents are sequences of characters here, because the        *)
(* classifier looks for substrings.                                        *)

\* Longest list of files given to the classifier.
MaxClassified == 2

\* String.prototype.toLowerCase, character by character.
UpperToLower ==
    [c \in {"A", "B", "C", "D", "E", "F", "G", "H", "I", "J", "K", "L", "M", "N", "O", "P", "Q", "R", "S", "T", "U", "V", "W", "X", "Y", "Z"} |->
        CASE c = "A" -> "a"
          [] c = "B" -> "b"
          [] c = "C" -> "c"
          [] c = "D" -> "d"
          [] c = "E" -> "e"
          [] c = "F" -> "f"
          [] c = "G" -> "g"
          [] c = "H" -> "h"
          [] c = "I" -> "i"
          [] c = "J" -> "j"
          [] c = "K" -> "k"
          [] c = "L" -> "l"
          [] c = "M" -> "m"
          [] c = "N" -> "n"
          [] c = "O" -> "o"
          [] c = "P" -> "p"
          [] c = "Q" -> "q"
          [] c = "R" -> "r"
          [] c = "S" -> "s"
          [] c = "T" -> "t"
          [] c = "U" -> "u"
          [] c = "V" -> "v"
          [] c = "W" -> "w"
          [] c = "X" -> "x"
          [] c = "Y" -> "y"
          [] c = "Z" -> "z"]

toLowerCase(s) ==
    [i \in 1..Len(s) |-> IF s[i] \in DOMAIN UpperToLower THEN UpperToLower[s[i]] ELSE s[i]]

\* String.prototype.includes
includes(s, sub) ==
    \E i \in 0..(Len(s) - Len(sub)) : \A j \in 1..Len(sub) : s[i + j] = sub[j]

nameSignals ==
    << <<"a", "c", "t", "i", "v", "i", "t", "y">>,
       <<"v", "i", "e", "w", "m", "o", "d", "e", "l">>,
       <<"s", "e", "r", "v", "i", "c", "e">>,
       <<"c", "o", "n", "t", "r", "o", "l", "l", "e", "r">>,
       <<"n", "a", "v", "i", "g", "a", "t", "i", "o", "n">>,
       <<"d", "e", "e", "p", "l", "i", "n", "k">>,
       <<"r", "e", "p", "o", "s", "i", "t", "o", "r", "y">> >>

contentSignals ==
    << <<"c", "l", "a", "s", "s", " ">>,
       <<"a", "c", "t", "i", "v", "i", "t", "y">>,
       <<"v", "i", "e", "w", "m", "o", "d", "e", "l">>,
       <<"s", "e", "r", "v", "i", "c", "e">>,
       <<"o", "n", "c", "r", "e", "a", "t", "e">>,
       <<"o", "n", "s", "t", "a", "r", "t", "c", "o", "m", "m", "a", "n", "d">>,
       <<"s", "t", "a", "t", "e", "f", "l", "o", "w">>,
       <<"l", "i", "v", "e", "d", "a", "t", "a">>,
       <<"i", "n", "t", "e", "n", "t">>,
       <<"n", "a", "v", "c", "o", "n", "t", "r", "o", "l", "l", "e", "r">>,
       <<"n", "a", "v", "i", "g", "a", "t", "i", "o", "n">>,
       <<"c", "o", "r", "o", "u", "t", "i", "n", "e", "s", "c", "o", "p", "e">>,
       <<"s", "u", "s", "p", "e", "n", "d", " ", "f", "u", "n">> >>

\* for (const signal of signals) if (text.includes(signal)) score += weight
RECURSIVE AddSignals(_, _, _, _, _)
AddSignals(score, text, signals, weight, i) ==
    IF i > Len(signals) THEN score
    ELSE AddSignals(IF includes(text, signals[i]) THEN score + weight ELSE score,
                    text, signals, weight, i + 1)

\* The score of one file after both loops.
Score(file) ==
    LET name == toLowerCase(file.path)
        content == toLowerCase(file.content)
    IN  AddSignals(AddSignals(0, name, nameSignals, 2, 1), content, contentSignals, 1, 1)

\* The classification threshold.
IsSequentialMutant(score) == score > 2
IsSequential(score) == score >= 2

\* One turn of the loop over the files: the file is pushed on one list.
PlaceMutant(lists, file) ==
    IF IsSequential(Score(file))
    THEN [lists EXCEPT !.sequential = Append(@, file)]
    ELSE lists
Place(lists, file) ==
    IF IsSequential(Score(file))
    THEN [lists EXCEPT !.sequential = Append(@, file)]
    ELSE [lists EXCEPT !.parallel = Append(@, file)]

RECURSIVE ClassifyFrom(_, _, _)
ClassifyFrom(lists, fs, i) ==
    IF i > Len(fs) THEN lists
    ELSE ClassifyFrom(Place(lists, fs[i]), fs, i + 1)

classifyFiles(fs) == ClassifyFrom([sequential |-> <<>>, parallel |-> <<>>], fs, 1)

ClassifierPaths ==
    { <<"U", "s", "e", "r", "V", "i", "e", "w", "M", "o", "d", "e", "l", ".", "k", "t">>,
      <<"U", "t", "i", "l", ".", "k", "t">>,
      <<"M", "a", "i", "n", "A", "c", "t", "i", "v", "i", "t", "y", ".", "k", "t">>,
      <<"N", "a", "v", "i", "g", "a", "t", "i", "o", "n", "S", "e", "r", "v", "i", "c", "e", ".", "k", "t">> }

ClassifierContents ==
    { <<>>,
      <<"f", "u", "n", " ", "h", "e", "l", "p", "e", "r", "(", ")">>,
      <<"d", "a", "t", "a", " ", "c", "l", "a", "s", "s", " ", "U", "s", "e", "r">>,
      <<"c", "l", "a", "s", "s", " ", "A", "p", "i", " ", ":", " ", "S", "e", "r", "v", "i", "c", "e", "(", ")">>,
      <<"v", "a", "l", " ", "i", " ", "=", " ", "I", "n", "t", "e", "n", "t", "(", ")">> }

ClassifierFiles == [path : ClassifierPaths, content : ClassifierContents]

InitClassifier ==
    /\ variant = "classifier"
    /\ pc = "call"
    /\ NoRun
    /\ callArgs \in [fn : {"classifyFiles"},
                     files : UNION { [1..n -> ClassifierFiles] : n \in 0..MaxClassified }]
    /\ callResult = NoCall

\* One call of classifyFiles.
CallClassifier ==
    /\ pc = "call"
    /\ callArgs.fn = "classifyFiles"
    /\ callResult' = classifyFiles(callArgs.files)
    /\ pc' = "returned"
    /\ UNCHANGED <<variant, files, idx, verified, attempts, transformedContent,
                   currentInstructions, projectManifest, results, finalizedProject,
                   request, batch, passed, attemptManifest, writes, synthRuns, outcomes,
                   raised, lane, callArgs, rawOutput, diagnostics>>

NextClassifier ==
    \/ CallClassifier

SpecClassifier == InitClassifier /\ [][NextClassifier]_vars

----------------------------------------------------------------------------
(* The sanitizer on its own: sanitizeOutput in its two revisions           *)
(* (codeTransformers.js, unnamed/part_008)                                 *)

\* Raw oracle text: chatter, an opening fence, code, a closing fence, chatter.
\* The last code of FencedCodes is Kotlin the oracle left as it was: it holds
\* none of the swiftKeywords.
Preambles == { <<>>, <<"Here", "is", "the", "code">> }

OpeningFences == Fences

FencedCodes ==
    { <<"import", "Foo", "struct", "X", "{", "}">>,
      <<"import", "SwiftUI", "struct", "X", "{", "}">>,
      <<"struct", "X", "{", "}">>,
      <<"class", "Account", "{", "}">>,
      <<"fun", "helper">> }

Chatters == { <<>>, <<"chatter">>, <<"Hope", "this", "helps!">>, <<"Done", "func">> }

RawText(parts) ==
    parts.preamble \o <<parts.fence>> \o parts.code \o <<BareFence>> \o parts.chatter

SanitizerRevisions == {"codeTransformers.js", "part_008"}

SanitizerPaths == {"Util.kt", "UserEntity.kt"}

InitSanitizer ==
    /\ variant = "sanitizer"
    /\ pc = "call"
    /\ NoRun
    /\ callArgs \in [fn : {"sanitizeOutput"},
                     revision : SanitizerRevisions,
                     preamble : Preambles,
                     fence : OpeningFences,
                     code : FencedCodes,
                     chatter : Chatters,
                     filePath : SanitizerPaths]
    /\ callResult = NoCall

\* One call of sanitizeOutput on the raw text.
CallSanitizer ==
    /\ pc = "call"
    /\ callArgs.fn = "sanitizeOutput"
    /\ callResult' =
          [text |-> IF callArgs.revision = "part_008"
                    THEN sanitizeOutputV2(RawText(callArgs))
                    ELSE sanitizeOutput(RawText(callArgs), callArgs.filePath)]
    /\ pc' = "returned"
    /\ UNCHANGED <<variant, files, idx, verified, attempts, transformedContent,
                   currentInstructions, projectManifest, results, finalizedProject,
                   request, batch, passed, attemptManifest, writes, synthRuns, outcomes,
                   raised, lane, callArgs, rawOutput, diagnostics>>

NextSanitizer ==
    \/ CallSanitizer

SpecSanitizer == InitSanitizer /\ [][NextSanitizer]_vars

----------------------------------------------------------------------------
(* The project context: buildProjectContext(files) of utils/projectContext *)
(* (unnamed/part_005) with classifyFileRole. Contents are sequences of     *)
(* characters.                                                             *)

\* Longest list of files given to buildProjectContext.
MaxContextFiles == 2

\* [A-Za-z0-9_]
IdentChars ==
    {"a", "b", "c", "d", "e", "f", "g", "h", "i", "j", "k", "l", "m", "n", "o", "p", "q", "r", "s", "t", "u", "v", "w", "x", "y", "z"}
    \cup {"A", "B", "C", "D", "E", "F", "G", "H", "I", "J", "K", "L", "M", "N", "O", "P", "Q", "R", "S", "T", "U", "V", "W", "X", "Y", "Z"}
    \cup {"0", "1", "2", "3", "4", "5", "6", "7", "8", "9", "_"}

\* \s
Whitespace == {" ", "\n", "\t"}

Quote == "\""

\* The text lit stands in s at position p.
StartsWithAt(s, p, lit) ==
    /\ p + Len(lit) - 1 <= Len(s)
    /\ \A j \in 1..Len(lit) : s[p + j - 1] = lit[j]

\* The last index of the longest run of characters of S that starts at p
\* (p - 1 when s[p] is not in S): a greedy S*.
RECURSIVE RunEnd(_, _, _)
RunEnd(s, p, S) ==
    IF p <= Len(s) /\ s[p] \in S THEN RunEnd(s, p + 1, S) ELSE p - 1

\* A match of /kw\s+([A-Za-z0-9_]+)/ at p, followed, when terminators are
\* given, by \s* and one of them: the end of the match and the captured
\* name, or end 0.
NameMatch(s, p, kw, terminators) ==
    LET a == p + Len(kw)
        b == RunEnd(s, a, Whitespace)
        c == RunEnd(s, b + 1, IdentChars)
        d == RunEnd(s, c + 1, Whitespace)
    IN  IF /\ StartsWithAt(s, p, kw)
           /\ b >= a
           /\ c >= b + 1
           /\ terminators # {} => (d + 1 <= Len(s) /\ s[d + 1] \in terminators)
        THEN [end |-> IF terminators = {} THEN c ELSE d + 1, name |-> SubSeq(s, b + 1, c)]
        ELSE [end |-> 0, name |-> <<>>]

\* The first alternative of kws, in their order, that matches at p.
RECURSIVE FirstAlternative(_, _, _, _, _)
FirstAlternative(s, p, kws, terminators, k) ==
    IF k > Len(kws) THEN [end |-> 0, name |-> <<>>]
    ELSE IF NameMatch(s, p, kws[k], terminators).end # 0
         THEN NameMatch(s, p, kws[k], terminators)
         ELSE FirstAlternative(s, p, kws, terminators, k + 1)

\* while ((match = regex.exec(content)) !== null) names.push(match[n]): the
\* captured names of all matches from p on, each search starting where the
\* match before ended.
RECURSIVE ExtractNames(_, _, _, _)
ExtractNames(s, p, kws, terminators) ==
    IF p > Len(s) THEN <<>>
    ELSE IF FirstAlternative(s, p, kws, terminators, 1).end # 0
         THEN <<FirstAlternative(s, p, kws, terminators, 1).name>>
              \o ExtractNames(s, FirstAlternative(s, p, kws, terminators, 1).end + 1,
                              kws, terminators)
         ELSE ExtractNames(s, p + 1, kws, terminators)

\* /class\s+([A-Za-z0-9_]+)/g
extractClassNames(content) ==
    ExtractNames(content, 1, << <<"c", "l", "a", "s", "s">> >>, {})

\* /(fun|override fun)\s+([A-Za-z0-9_]+)\s*\(/g
extractFunctions(content) ==
    ExtractNames(content, 1, << <<"f", "u", "n">>, <<"o", "v", "e", "r", "r", "i", "d", "e", " ", "f", "u", "n">> >>, {"("})

\* /(val|var)\s+([A-Za-z0-9_]+)\s*[:=]/g
extractStateVariables(content) ==
    ExtractNames(content, 1, << <<"v", "a", "l">>, <<"v", "a", "r">> >>, {":", "="})

\* The captures of /lit"([^"]+)"/gi, lit in lower case, from p on.
RECURSIVE ExtractQuoted(_, _, _)
ExtractQuoted(s, p, lit) ==
    LET a == p + Len(lit)
        q == IndexIn(s, {Quote}, a)
    IN  IF p > Len(s) THEN <<>>
        ELSE IF StartsWithAt(toLowerCase(s), p, lit) /\ q > a
             THEN <<SubSeq(s, a, q - 1)>> \o ExtractQuoted(s, q + 1, lit)
             ELSE ExtractQuoted(s, p + 1, lit)

\* /getsharedpreferences\("([^"]+)"/gi
extractSharedPreferences(content) ==
    ExtractQuoted(content, 1, <<"g", "e", "t", "s", "h", "a", "r", "e", "d", "p", "r", "e", "f", "e", "r", "e", "n", "c", "e", "s", "(", "\"">>)

\* /putextra\("([^"]+)"/gi
extractIntentExtras(content) ==
    ExtractQuoted(content, 1, <<"p", "u", "t", "e", "x", "t", "r", "a", "(", "\"">>)

\* signals.filter(sig => content.toLowerCase().includes(sig))
SignalsIn(content, signals) ==
    SelectSeq(signals, LAMBDA sig : includes(toLowerCase(content), sig))

extractNavigationCalls(content) ==
    SignalsIn(content,
       << <<"s", "t", "a", "r", "t", "a", "c", "t", "i", "v", "i", "t", "y">>,
       <<"i", "n", "t", "e", "n", "t", "(">>,
       <<"n", "a", "v", "c", "o", "n", "t", "r", "o", "l", "l", "e", "r">>,
       <<"n", "a", "v", "i", "g", "a", "t", "e", "(">>,
       <<"f", "i", "n", "d", "n", "a", "v", "c", "o", "n", "t", "r", "o", "l", "l", "e", "r">> >>)

extractViewModelUsage(content) ==
    SignalsIn(content,
       << <<"v", "i", "e", "w", "m", "o", "d", "e", "l">>,
       <<"s", "t", "a", "t", "e", "f", "l", "o", "w">>,
       <<"l", "i", "v", "e", "d", "a", "t", "a">>,
       <<"m", "u", "t", "a", "b", "l", "e", "l", "i", "v", "e", "d", "a", "t", "a">>,
       <<"m", "u", "t", "a", "b", "l", "e", "s", "t", "a", "t", "e", "f", "l", "o", "w">> >>)

extractServiceBindings(content) ==
    SignalsIn(content,
       << <<"b", "i", "n", "d", "s", "e", "r", "v", "i", "c", "e">>,
       <<"s", "t", "a", "r", "t", "s", "e", "r", "v", "i", "c", "e">>,
       <<"s", "t", "o", "p", "s", "e", "r", "v", "i", "c", "e">>,
       <<"o", "n", "s", "t", "a", "r", "t", "c", "o", "m", "m", "a", "n", "d">> >>)

extractDeepLinkHandlers(content) ==
    SignalsIn(content,
       << <<"i", "n", "t", "e", "n", "t", "?", ".", "d", "a", "t", "a">>,
       <<"i", "n", "t", "e", "n", "t", ".", "d", "a", "t", "a">>,
       <<"g", "e", "t", "q", "u", "e", "r", "y", "p", "a", "r", "a", "m", "e", "t", "e", "r">>,
       <<"d", "e", "e", "p", "l", "i", "n", "k">> >>)

\* lower.includes(a) || lower.includes(b) || ...
IncludesAny(lower, signals) == \E k \in 1..Len(signals) : includes(lower, signals[k])

\* classifyFileRole(path, content) of utils/classifyFileRole.js
classifyFileRole(path, content) ==
    LET lower == toLowerCase(content)
    IN  IF IncludesAny(lower, << <<"v", "i", "e", "w", "m", "o", "d", "e", "l">>,
                           <<"m", "u", "t", "a", "b", "l", "e", "l", "i", "v", "e", "d", "a", "t", "a">>,
                           <<"s", "t", "a", "t", "e", "f", "l", "o", "w">> >>)
        THEN "viewmodel"
        ELSE IF IncludesAny(lower, << <<"@", "c", "o", "m", "p", "o", "s", "a", "b", "l", "e">>,
                                <<"s", "e", "t", "c", "o", "n", "t", "e", "n", "t">>,
                                <<"a", "c", "t", "i", "v", "i", "t", "y">>,
                                <<"f", "r", "a", "g", "m", "e", "n", "t">>,
                                <<"c", "o", "m", "p", "o", "s", "e">> >>)
        THEN "ui"
        ELSE IF IncludesAny(lower, << <<"r", "e", "t", "r", "o", "f", "i", "t">>,
                                <<"o", "k", "h", "t", "t", "p">>,
                                <<"r", "e", "p", "o", "s", "i", "t", "o", "r", "y">>,
                                <<"s", "e", "r", "v", "i", "c", "e">>,
                                <<"a", "p", "i">> >>)
        THEN "service"
        ELSE IF IncludesAny(lower, << <<"n", "a", "v", "c", "o", "n", "t", "r", "o", "l", "l", "e", "r">>,
                                <<"n", "a", "v", "h", "o", "s", "t">>,
                                <<"n", "a", "v", "i", "g", "a", "t", "i", "o", "n">>,
                                <<"d", "e", "e", "p", "l", "i", "n", "k">> >>)
        THEN "navigation"
        ELSE IF IncludesAny(lower, << <<"d", "a", "t", "a", " ", "c", "l", "a", "s", "s">>,
                                <<"e", "n", "t", "i", "t", "y">>,
                                <<"@", "s", "e", "r", "i", "a", "l", "i", "z", "e", "d", "n", "a", "m", "e">>,
                                <<"p", "a", "r", "c", "e", "l", "i", "z", "e">> >>)
        THEN "data"
        ELSE IF IncludesAny(lower, << <<"u", "t", "i", "l">>,
                                <<"h", "e", "l", "p", "e", "r">>,
                                <<"e", "x", "t", "e", "n", "s", "i", "o", "n">>,
                                <<"o", "b", "j", "e", "c", "t", " ">> >>)
        THEN "utility"
        ELSE "unknown"

\* summarizeFile(file); a file without a language has language "".
summarizeFile(file) ==
    [path |-> file.path,
     language |-> IF file.language = "" THEN "kotlin" ELSE file.language,
     role |-> classifyFileRole(file.path, file.content),
     classes |-> extractClassNames(file.content),
     functions |-> extractFunctions(file.content),
     stateVariables |-> extractStateVariables(file.content),
     navigationCalls |-> extractNavigationCalls(file.content),
     viewModelUsage |-> extractViewModelUsage(file.content),
     serviceBindings |-> extractServiceBindings(file.content),
     deepLinkHandlers |-> extractDeepLinkHandlers(file.content),
     sharedPreferences |-> extractSharedPreferences(file.content),
     intentExtras |-> extractIntentExtras(file.content)]

\* files.map(f => summarizeFile(f))
SummariesMutant(fs) ==
    [i \in 1..Len(fs) |-> summarizeFile([fs[i] EXCEPT !.content = fs[1].content])]
Summaries(fs) == [i \in 1..Len(fs) |-> summarizeFile(fs[i])]

\* lists.flat(): the lists joined in their order.
RECURSIVE Flat(_, _)
Flat(lists, i) ==
    IF i > Len(lists) THEN <<>>
    ELSE lists[i] \o Flat(lists, i + 1)

buildProjectContext(fs) ==
    LET summaries == Summaries(fs)
        n == Len(summaries)
    IN  [fileCount |-> Len(fs),
         files |-> summaries,
         classIndex |-> Flat([i \in 1..n |-> summaries[i].classes], 1),
         navigationGraph |-> Flat([i \in 1..n |-> summaries[i].navigationCalls], 1),
         viewModelMap |-> Flat([i \in 1..n |-> summaries[i].viewModelUsage], 1),
         serviceMap |-> Flat([i \in 1..n |-> summaries[i].serviceBindings], 1),
         deepLinkMap |-> Flat([i \in 1..n |-> summaries[i].deepLinkHandlers], 1),
         sharedPreferencesKeys |-> Flat([i \in 1..n |-> summaries[i].sharedPreferences], 1),
         intentExtras |-> Flat([i \in 1..n |-> summaries[i].intentExtras], 1)]

ContextContents ==
    { <<>>,
      <<"c", "l", "a", "s", "s", " ", "U", "s", "e", "r", "(", "v", "a", "l", " ", "i", "d", ":", " ", "I", "n", "t", ")">>,
      <<"c", "l", "a", "s", "s", " ", "M", "a", "i", "n", "A", "c", "t", "i", "v", "i", "t", "y", " ", "{", " ", "o", "v", "e", "r", "r", "i", "d", "e", " ", "f", "u", "n", " ", "o", "n", "C", "r", "e", "a", "t", "e", "(", ")", " ", "{", " ", "s", "t", "a", "r", "t", "A", "c", "t", "i", "v", "i", "t", "y", "(", "I", "n", "t", "e", "n", "t", "(", "t", "h", "i", "s", ")", ")", " ", "}", " ", "}">>,
      <<"c", "l", "a", "s", "s", " ", "U", "s", "e", "r", "V", "i", "e", "w", "M", "o", "d", "e", "l", " ", "{", " ", "v", "a", "l", " ", "s", "t", "a", "t", "e", " ", "=", " ", "M", "u", "t", "a", "b", "l", "e", "S", "t", "a", "t", "e", "F", "l", "o", "w", "(", "0", ")", " ", "}">>,
      <<"f", "u", "n", " ", "h", "e", "l", "p", "e", "r", "(", ")", " ", "{", " ", "p", ".", "g", "e", "t", "S", "h", "a", "r", "e", "d", "P", "r", "e", "f", "e", "r", "e", "n", "c", "e", "s", "(", "\"", "s", "e", "t", "t", "i", "n", "g", "s", "\"", ")", ";", " ", "i", ".", "p", "u", "t", "E", "x", "t", "r", "a", "(", "\"", "i", "d", "\"", ")", " ", "}">> }

ContextFiles ==
    [path : {"A.kt"}, language : {""}, content : ContextContents]
    \cup [path : {"B.java"}, language : {"java"}, content : ContextContents]

InitContext ==
    /\ variant = "context"
    /\ pc = "call"
    /\ NoRun
    /\ callArgs \in [fn : {"buildProjectContext"},
                     files : UNION { [1..n -> ContextFiles] : n \in 1..MaxContextFiles },
                     changed : {0}]
    /\ callResult = NoCall

\* One call of buildProjectContext; the context of the call before is kept
\* for comparison.
CallContext ==
    /\ pc = "call"
    /\ callArgs.fn = "buildProjectContext"
    /\ callResult' =
          [fn |-> "buildProjectContext",
           context |-> buildProjectContext(callArgs.files),
           previous |-> IF callResult.fn = "none"
                        THEN buildProjectContext(<<>>)
                        ELSE callResult.context]
    /\ pc' = "returned"
    /\ UNCHANGED <<variant, files, idx, verified, attempts, transformedContent,
                   currentInstructions, projectManifest, results, finalizedProject,
                   request, batch, passed, attemptManifest, writes, synthRuns, outcomes,
                   raised, lane, callArgs, rawOutput, diagnostics>>

\* The caller changes the content of one file and asks for the context again.
ChangeContent ==
    /\ pc = "returned"
    /\ callArgs.fn = "buildProjectContext"
    /\ callArgs.changed = 0
    /\ \E k \in 1..Len(callArgs.files) : \E content \in ContextContents :
          /\ content # callArgs.files[k].content
          /\ callArgs' = [callArgs EXCEPT !.files[k].content = content, !.changed = k]
    /\ pc' = "call"
    /\ UNCHANGED <<variant, files, idx, verified, attempts, transformedContent,
                   currentInstructions, projectManifest, results, finalizedProject,
                   request, batch, passed, attemptManifest, writes, synthRuns, outcomes,
                   raised, lane, callResult, rawOutput, diagnostics>>

NextContext ==
    \/ CallContext
    \/ ChangeContent

SpecContext == InitContext /\ [][NextContext]_vars

----------------------------------------------------------------------------
(* The streaming route: POST /transformCode/stream of server.js with       *)
(* runCodexiaTransformStream in the revisions of codexiaEngine.js,         *)
(* unnamed/part_018 and unnamed/part_019                                   *)

\* res.write('data: [END]\n\n')
EndMarker == "[END]"

\* Lines of the oracle's stream: a line that carries a token (an empty one
\* for a line without content), a line that does not parse, and the
\* oracle's own last line [DONE].
TokenLine(t) == [kind |-> "token", token |-> t]
GarbageLine == [kind |-> "garbage", token |-> ""]
DoneLine == [kind |-> "done", token |-> ""]

\* The chunks in which the oracle's stream may arrive.
StreamMenu ==
    { <<>>,
      << <<TokenLine("struct")>>, <<TokenLine("X")>>, <<TokenLine("{"), TokenLine("}")>> >>,
      << <<TokenLine("struct"), GarbageLine, TokenLine("X")>>, <<TokenLine(""), TokenLine("{")>> >>,
      << <<TokenLine("struct"), TokenLine("X")>>, <<DoneLine, TokenLine("{")>>, <<TokenLine("}")>> >> }

StreamRevisions == {"codexiaEngine.js", "part_018", "part_019"}

\* The stream ends after its last chunk.
NoFailure == 99

\* The tokens the handler of a chunk passes to onToken, from line i on, and
\* whether it has seen the end of the stream. codexiaEngine.js: the try
\* block is around the loop, so a line that does not parse ends the chunk.
\* part_018 has the same handler. part_019: the try block is inside the
\* loop, and [DONE] returns.
RECURSIVE ChunkTokens(_, _, _)
ChunkTokens(chunk, revision, i) ==
    IF i > Len(chunk) THEN [tokens |-> <<>>, done |-> FALSE]
    ELSE LET rest == ChunkTokens(chunk, revision, i + 1)
         IN  CASE chunk[i].kind = "token" ->
                    IF chunk[i].token = "" THEN rest
                    ELSE [rest EXCEPT !.tokens = <<chunk[i].token>> \o @]
               [] chunk[i].kind = "done" /\ revision = "part_019" ->
                    [tokens |-> <<>>, done |-> TRUE]
               [] revision = "part_019" -> rest
               [] OTHER -> [tokens |-> <<>>, done |-> FALSE]

\* ("Codexia Internal Engine:\n\n" + combined).split(" ")
FakeTokens(messages) == runInternalEngine(Combined(messages, 1))

StreamMessages ==
    { <<[role |-> "system", content |-> <<"Convert", "to", "SwiftUI">>],
        [role |-> "user", content |-> <<"class", "Account">>]>> }

\* The response as the client has it: the events written, whether it was
\* ended, its status (0 while none was sent), and the next chunk.
NoResponse == [fn |-> "stream", written |-> <<>>, ended |-> FALSE, status |-> 0, next |-> 1]

InitStream ==
    /\ variant = "stream"
    /\ pc = "route"
    /\ NoRun
    /\ callArgs \in [fn : {"stream"},
                     revision : StreamRevisions,
                     messages : StreamMessages,
                     baseUrl : BOOLEAN,
                     transport : {"response", "unreachable"},
                     chunks : StreamMenu,
                     failAfter : (0..3) \cup {NoFailure}]
    /\ callArgs.failAfter \in (0..Len(callArgs.chunks)) \cup {NoFailure}
    /\ callResult = NoResponse

StreamFrame ==
    UNCHANGED <<variant, files, idx, verified, attempts, transformedContent,
                currentInstructions, projectManifest, results, finalizedProject,
                request, batch, passed, attemptManifest, writes, synthRuns, outcomes,
                raised, lane, callArgs, rawOutput, diagnostics>>

\* res.write('data: [END]\n\n'); res.end()
WithEndMarker(response) ==
    [response EXCEPT !.written = Append(@, EndMarker), !.ended = TRUE, !.status = 200]

\* catch (error): if (!res.headersSent) res.status(500).json(...); headers
\* are sent with the first res.write.
AfterRouteError(response) ==
    IF response.written = <<>>
    THEN [response EXCEPT !.status = 500, !.ended = TRUE]
    ELSE response

\* The request to the oracle is made: part_018 falls back to
\* http://localhost:11434 when LOCAL_LLM_BASE_URL is not set.
OracleAsked ==
    /\ callArgs.baseUrl \/ callArgs.revision = "part_018"
    /\ callArgs.transport = "response"

\* The route builds the messages, sets the headers and calls
\* runCodexiaTransformStream, which opens the stream, falls back to the
\* internal engine, or throws.
StreamRoute ==
    /\ pc = "route"
    /\ callArgs.fn = "stream"
    /\ IF callArgs.revision = "codexiaEngine.js"
       THEN /\ pc' = IF OracleAsked THEN "streaming" ELSE "fallback"
            /\ UNCHANGED callResult
       ELSE IF OracleAsked
            THEN pc' = "streaming" /\ UNCHANGED callResult
            ELSE pc' = "settled" /\ callResult' = AfterRouteError(callResult)
    /\ StreamFrame

\* for (const t of fakeTokens) { await ...; onToken(t + " ") }
FakeToken ==
    /\ pc = "fallback"
    /\ callResult.next <= Len(FakeTokens(callArgs.messages))
    /\ callResult' = [callResult EXCEPT
                         !.written = Append(@, FakeTokens(callArgs.messages)[callResult.next]),
                         !.status = 200,
                         !.next = @ + 1]
    /\ pc' = pc
    /\ StreamFrame

\* The fallback loop is over: the route writes the end marker.
FallbackEnd ==
    /\ pc = "fallback"
    /\ callResult.next > Len(FakeTokens(callArgs.messages))
    /\ callResult' = WithEndMarker(callResult)
    /\ pc' = "settled"
    /\ StreamFrame

\* One chunk of the oracle's stream arrives and its tokens are written.
StreamChunk ==
    /\ pc = "streaming"
    /\ callResult.next <= Len(callArgs.chunks)
    /\ callResult.next <= callArgs.failAfter
    /\ LET got == ChunkTokens(callArgs.chunks[callResult.next], callArgs.revision, 1)
           response == [callResult EXCEPT
                           !.written = @ \o got.tokens,
                           !.status = IF got.tokens # <<>> THEN 200 ELSE @,
                           !.next = @ + 1]
       IN  IF got.done
           THEN callResult' = WithEndMarker(response) /\ pc' = "settled"
           ELSE callResult' = response /\ pc' = pc
    /\ StreamFrame

\* The oracle's stream ends: the promise resolves and the route writes the
\* end marker.
StreamEnd ==
    /\ pc = "streaming"
    /\ callResult.next > Len(callArgs.chunks)
    /\ callArgs.failAfter = NoFailure
    /\ callResult' = WithEndMarker(callResult)
    /\ pc' = "settled"
    /\ StreamFrame

\* The connection to the oracle breaks. part_019: reader.read() rejects and
\* the route's catch block runs. codexiaEngine.js and part_018: the stream
\* emits error, which nothing listens to, and end never comes: the promise
\* stays pending.
StreamFail ==
    /\ pc = "streaming"
    /\ callArgs.failAfter # NoFailure
    /\ callResult.next > callArgs.failAfter
    /\ IF callArgs.revision = "part_019"
       THEN pc' = "settled" /\ callResult' = AfterRouteError(callResult)
       ELSE pc' = "pending" /\ UNCHANGED callResult
    /\ StreamFrame

NextStream ==
    \/ StreamRoute
    \/ FakeToken
    \/ FallbackEnd
    \/ StreamChunk
    \/ StreamEnd
    \/ StreamFail

SpecStream == InitStream /\ [][NextStream]_vars

\* The event loop runs every callback that is ready: a step of the route
\* that can be taken is taken.
FairSpecStream == SpecStream /\ WF_vars(NextStream)

----------------------------------------------------------------------------
(* The transform options: getDefaultTransformOptions (types/               *)
(* TransformOptions.js, unnamed/part_015) with getPresetOptions            *)
(* (types/presets.js, unnamed/part_016), and the merge of handleSingleFile *)

\* An options object is a function on the field names; a field the object
\* does not have is Absent.
Absent == "<absent>"

OptionFields ==
    {"direction", "preset", "temperature", "maxTokens", "modelHint", "model",
     "allowExplanations", "maxAttempts"}

NoOptions == [f \in OptionFields |-> Absent]

\* { ...a, ...b }
Spread(a, b) == [f \in OptionFields |-> IF b[f] # Absent THEN b[f] ELSE a[f]]

DEFAULT_TRANSFORM_OPTIONS ==
    [NoOptions EXCEPT !["direction"] = "kotlin_to_swiftui",
                      !["preset"] = "activity_entrypoint",
                      !["temperature"] = "0.2",
                      !["maxTokens"] = "2048",
                      !["modelHint"] = "medium",
                      !["model"] = "primary",
                      !["allowExplanations"] = "false"]

PresetKeys ==
    {"activity_entrypoint", "compose_to_swiftui", "android_to_swiftui",
     "refactor_kotlin", "explain_code"}

PRESETS ==
    [k \in PresetKeys |->
        CASE k = "activity_entrypoint" ->
                [NoOptions EXCEPT !["direction"] = "kotlin_to_swiftui",
                                  !["temperature"] = "0.2", !["modelHint"] = "medium"]
          [] k = "compose_to_swiftui" ->
                [NoOptions EXCEPT !["direction"] = "compose_to_swiftui",
                                  !["temperature"] = "0.25", !["modelHint"] = "medium"]
          [] k = "android_to_swiftui" ->
                [NoOptions EXCEPT !["direction"] = "android_to_swiftui",
                                  !["temperature"] = "0.3", !["modelHint"] = "medium"]
          [] k = "refactor_kotlin" ->
                [NoOptions EXCEPT !["direction"] = "refactor_kotlin",
                                  !["temperature"] = "0.15", !["modelHint"] = "small",
                                  !["allowExplanations"] = "true"]
          [] k = "explain_code" ->
                [NoOptions EXCEPT !["direction"] = "explain_code",
                                  !["temperature"] = "0.1", !["modelHint"] = "small",
                                  !["allowExplanations"] = "true"]]

\* getPresetOptions(presetKey): PRESETS[presetKey] || {}
getPresetOptions(presetKey) ==
    IF presetKey \in PresetKeys THEN PRESETS[presetKey] ELSE NoOptions

\* getDefaultTransformOptions(clientOptions)
getDefaultTransformOptions(clientOptions) ==
    LET base == Spread(DEFAULT_TRANSFORM_OPTIONS, clientOptions)
        presetOverrides == getPresetOptions(base["preset"])
    IN  Spread(Spread(DEFAULT_TRANSFORM_OPTIONS, presetOverrides), clientOptions)

\* mergedOptions of handleSingleFile: { ...getDefaultTransformOptions(), ...(options || {}) }
SingleFileOptions(options) == Spread(getDefaultTransformOptions(NoOptions), options)

\* options?.temperature ?? 0.2 of runCodexiaTransform
RequestTemperature(options) ==
    IF options["temperature"] = Absent THEN "0.2" ELSE options["temperature"]

\* What a caller may send as options.
ClientOptions ==
    { [NoOptions EXCEPT !["preset"] = p, !["temperature"] = t, !["maxAttempts"] = m,
                        !["modelHint"] = h, !["direction"] = d] :
        p \in {Absent, "compose_to_swiftui", "refactor_kotlin", "my_preset"},
        t \in {Absent, "0.7"},
        m \in {Absent, "5"},
        h \in {Absent, "large"},
        d \in {Absent, "explain_code"} }

\* Who merges: a route of server.js, or handleSingleFile.
OptionCallers == {"getDefaultTransformOptions", "handleSingleFile"}

InitOptions ==
    /\ variant = "options"
    /\ pc = "call"
    /\ NoRun
    /\ callArgs \in [fn : {"mergeOptions"}, caller : OptionCallers, options : ClientOptions]
    /\ callResult = NoCall

\* The options are merged and the temperature of the request is taken.
CallOptions ==
    /\ pc = "call"
    /\ callArgs.fn = "mergeOptions"
    /\ \E merged \in { IF callArgs.caller = "handleSingleFile"
                       THEN SingleFileOptions(callArgs.options)
                       ELSE getDefaultTransformOptions(callArgs.options) } :
          callResult' = [fn |-> "mergeOptions", merged |-> merged,
                         temperature |-> RequestTemperature(merged)]
    /\ pc' = "returned"
    /\ UNCHANGED <<variant, files, idx, verified, attempts, transformedContent,
                   currentInstructions, projectManifest, results, finalizedProject,
                   request, batch, passed, attemptManifest, writes, synthRuns, outcomes,
                   raised, lane, callArgs, rawOutput, diagnostics>>

NextOptions ==
    \/ CallOptions

SpecOptions == InitOptions /\ [][NextOptions]_vars

----------------------------------------------------------------------------
(* The Codexia shell (unnamed/part_017): the line handler with its         *)
(* commands, xformFile, patchApply, parseMultiFileOutput and applyFileMap. *)
(* The disk is a function from paths to contents; a content is a sequence  *)
(* of lines.                                                               *)

\* Lines the shell handles in a session.
MaxLines == 2

\* A path without a file.
Missing == <<"<no file>">>

\* Paths relative to the project root; the last one lies outside the root.
DiskPaths == {"a.js", "b.js", "c.js", "../x"}

InitialDisk ==
    [p \in DiskPaths |-> IF p \in {"a.js", "b.js"} THEN <<"v0">> ELSE Missing]

\* Lines of the model's output: a file header "=== FILE: path ===", a line
\* of text, and a line of text that mentions "=== FILE:" without being a
\* header.
HeaderLine(p) == [kind |-> "header", text |-> p]
TextLine(t) == [kind |-> "text", text |-> t]
MentionLine == [kind |-> "mention", text |-> "see === FILE: below"]

\* What askLLM may resolve to.
ShellOutputs ==
    { <<>>,
      <<TextLine("T1")>>,
      <<MentionLine>>,
      <<HeaderLine("a.js"), TextLine("P1")>>,
      <<TextLine("chat"), HeaderLine("a.js"), TextLine("P1"), HeaderLine("c.js"), TextLine("P2")>>,
      <<HeaderLine("../x"), TextLine("P1")>> }

\* The lists a user may give after --files.
AllowedLists == { <<"a.js">>, <<"a.js", "b.js">>, <<"c.js">> }

\* The content of the block of lines that follows the header at line h.
RECURSIVE BlockFrom(_, _)
BlockFrom(out, i) ==
    IF i > Len(out) \/ out[i].kind = "header" THEN <<>>
    ELSE <<out[i].text>> \o BlockFrom(out, i + 1)

\* parseMultiFileOutput(output), from line i on: the map from the paths of
\* the headers to the lines of their blocks; a later block of a path
\* replaces an earlier one. A path without a block is mapped to Missing.
RECURSIVE ParseFrom(_, _, _)
ParseFrom(out, i, fileMap) ==
    IF i > Len(out) THEN fileMap
    ELSE IF out[i].kind = "header"
         THEN ParseFrom(out, i + 1, [fileMap EXCEPT ![out[i].text] = BlockFrom(out, i + 1)])
         ELSE ParseFrom(out, i + 1, fileMap)

\* A faulty parser that takes an output without a header for the new
\* content of a.js.
parseMultiFileOutputMutant(out) ==
    IF \E i \in 1..Len(out) : out[i].kind = "header"
    THEN ParseFrom(out, 1, [p \in DiskPaths |-> Missing])
    ELSE [p \in DiskPaths |-> IF p = "a.js" THEN [i \in 1..Len(out) |-> out[i].text] ELSE Missing]

parseMultiFileOutput(out) == ParseFrom(out, 1, [p \in DiskPaths |-> Missing])

\* Object.keys(fileMap)
PatchedPaths(fileMap) == {p \in DiskPaths : fileMap[p] # Missing}

\* applyFileMap(fileMap): every path of the map is written.
applyFileMap(disk, fileMap) ==
    [p \in DiskPaths |-> IF p \in PatchedPaths(fileMap) THEN fileMap[p] ELSE disk[p]]

\* !out || !out.includes("=== FILE:")
IsPatchOutput(out) == \E i \in 1..Len(out) : out[i].kind \in {"header", "mention"}

\* writeBack: cmd === "xformw"
WriteBackMutant(cmd) == cmd \in {"xform", "xformw"}
WriteBack(cmd) == cmd = "xformw"

\* Whether the module prompt/buildSystemPrompt.js the shell is run with
\* exports buildCodexiaSelfModificationPrompt, which the shell imports: if
\* not, getSystemPrompt({ selfModify: true }) throws.
PromptBuilders == {"exported", "missing"}

NoLine == [fn |-> "shell", cmd |-> "none", path |-> "", allowedFiles |-> <<>>, out |-> <<>>]

ShellLineOf(cmd, path, allowedFiles, out) ==
    [fn |-> "shell", cmd |-> cmd, path |-> path, allowedFiles |-> allowedFiles, out |-> out]

InitShell ==
    /\ variant = "shell"
    /\ pc = "prompt"
    /\ NoRun
    /\ callArgs = NoLine
    /\ callResult \in [fn : {"shell"}, disk : {InitialDisk}, contextEnabled : {FALSE},
                       written : {{}}, lines : {0}, promptBuilder : PromptBuilders]

ShellFrame ==
    UNCHANGED <<variant, files, idx, verified, attempts, transformedContent,
                currentInstructions, projectManifest, results, finalizedProject,
                request, batch, passed, attemptManifest, writes, synthRuns, outcomes,
                raised, lane, rawOutput, diagnostics>>

\* The shell reads a line.
ShellReady == pc = "prompt" /\ callArgs.fn = "shell" /\ callResult.lines < MaxLines

\* The shell state after a line that wrote the paths ps.
AfterLine(disk, ps) ==
    [callResult EXCEPT !.disk = disk, !.written = ps, !.lines = @ + 1]

\* An empty line, :help, :files, :read, an unknown command, and :xform or
\* :patch with wrong arguments: something is printed.
ShellInfo ==
    /\ ShellReady
    /\ \E cmd \in {"", "help", "files", "read", "unknown", "usage"} : \E p \in DiskPaths \cup {""} :
          callArgs' = ShellLineOf(cmd, IF cmd = "read" THEN p ELSE "", <<>>, <<>>)
    /\ callResult' = AfterLine(callResult.disk, {})
    /\ pc' = pc
    /\ ShellFrame

\* :context on|off
ShellContext ==
    /\ ShellReady
    /\ \E v \in {"on", "off", ""} :
          /\ callArgs' = ShellLineOf("context", v, <<>>, <<>>)
          /\ callResult' =
                [AfterLine(callResult.disk, {}) EXCEPT
                    !.contextEnabled = IF v = "on" THEN TRUE ELSE IF v = "off" THEN FALSE ELSE @]
    /\ pc' = pc
    /\ ShellFrame

\* :xform <path> and :xformw <path>: xformFile(path, { writeBack })
ShellXform ==
    /\ ShellReady
    /\ \E cmd \in {"xform", "xformw"} : \E p \in DiskPaths : \E out \in ShellOutputs :
          IF callResult.disk[p] = Missing
          THEN /\ callArgs' = ShellLineOf(cmd, p, <<>>, <<>>)
               /\ callResult' = AfterLine(callResult.disk, {})
          ELSE /\ callArgs' = ShellLineOf(cmd, p, <<>>, out)
               /\ callResult' =
                     IF WriteBack(cmd)
                     THEN AfterLine([callResult.disk EXCEPT ![p] = [i \in 1..Len(out) |-> out[i].text]], {p})
                     ELSE AfterLine(callResult.disk, {})
    /\ pc' = pc
    /\ ShellFrame

\* :patch <intent> --files a,b,c: patchApply(intent, allowedFiles)
ShellPatch ==
    /\ ShellReady
    /\ \E allowedFiles \in AllowedLists : \E out \in ShellOutputs :
          IF callResult.promptBuilder = "missing"
          THEN /\ callArgs' = ShellLineOf("patch", "", allowedFiles, <<>>)
               /\ callResult' = AfterLine(callResult.disk, {})
          ELSE /\ callArgs' = ShellLineOf("patch", "", allowedFiles, out)
               /\ callResult' =
                     IF IsPatchOutput(out)
                     THEN AfterLine(applyFileMap(callResult.disk, parseMultiFileOutput(out)),
                                    PatchedPaths(parseMultiFileOutput(out)))
                     ELSE AfterLine(callResult.disk, {})
    /\ pc' = pc
    /\ ShellFrame

\* A line that does not start with a colon: the prompt is sent to the model
\* and the answer printed.
ShellPrompt ==
    /\ ShellReady
    /\ \E out \in ShellOutputs : callArgs' = ShellLineOf("prompt", "", <<>>, out)
    /\ callResult' = AfterLine(callResult.disk, {})
    /\ pc' = pc
    /\ ShellFrame

\* :quit, :exit
ShellQuit ==
    /\ ShellReady
    /\ callArgs' = ShellLineOf("quit", "", <<>>, <<>>)
    /\ callResult' = AfterLine(callResult.disk, {})
    /\ pc' = "closed"
    /\ ShellFrame

NextShell ==
    \/ ShellInfo
    \/ ShellContext
    \/ ShellXform
    \/ ShellPatch
    \/ ShellPrompt
    \/ ShellQuit

SpecShell == InitShell /\ [][NextShell]_vars

----------------------------------------------------------------------------
(* chunkFiles(files) of utils/fileHandlers.js (unnamed/part_006). A        *)
(* content is a stretch of characters of an uploaded text, from position   *)
(* lo up to position hi, hi not included.                                  *)

\* const MAX_CHUNK_SIZE = 5000
MAX_CHUNK_SIZE == 5000

\* Longest list of files given to chunkFiles.
MaxChunkedFiles == 2

Min(a, b) == IF a < b THEN a ELSE b

\* The whole text of a file of n characters.
WholeText(id, n) == [text |-> id, lo |-> 0, hi |-> n]

\* content.length
Length(content) == content.hi - content.lo

\* content.substring(start, end), for 0 <= start <= end
substring(content, start, end) ==
    [content EXCEPT !.lo = content.lo + Min(start, Length(content)),
                    !.hi = content.lo + Min(end, Length(content))]

\* Math.ceil(file.content.length / MAX_CHUNK_SIZE)
NumChunksMutant(length) == length \div MAX_CHUNK_SIZE
NumChunks(length) == (length + MAX_CHUNK_SIZE - 1) \div MAX_CHUNK_SIZE

\* The chunk i (from 0) of a file.
ChunkOf(file, i, numChunks) ==
    LET start == i * MAX_CHUNK_SIZE
        end == Min((i + 1) * MAX_CHUNK_SIZE, Length(file.content))
        chunkContent == substring(file.content, start, end)
    IN  [name |-> <<file.name, "chunk", i + 1, numChunks>>,
         content |-> chunkContent,
         extension |-> file.extension,
         size |-> Length(chunkContent),
         isChunk |-> TRUE,
         chunkIndex |-> i,
         totalChunks |-> numChunks,
         originalFile |-> file.name]

\* What one turn of the loop over the files pushes.
ChunksOfFile(file) ==
    IF Length(file.content) <= MAX_CHUNK_SIZE
    THEN <<file>>
    ELSE [k \in 1..NumChunks(Length(file.content)) |->
             ChunkOf(file, k - 1, NumChunks(Length(file.content)))]

RECURSIVE ChunkFrom(_, _)
ChunkFrom(fs, i) ==
    IF i > Len(fs) THEN <<>>
    ELSE ChunksOfFile(fs[i]) \o ChunkFrom(fs, i + 1)

chunkFiles(fs) == ChunkFrom(fs, 1)

\* Entry names of an archive are distinct.
UploadNames == <<"A.kt", "B.kt", "C.kt">>

UploadLengths == {0, 1, 4999, 5000, 5001, 10000, 10001, 12345}

\* An uploaded file; it has none of the fields of a chunk.
UploadedFile(name, n) ==
    [name |-> name, content |-> WholeText(name, n), extension |-> ".kt", size |-> n,
     isChunk |-> FALSE, chunkIndex |-> 0, totalChunks |-> 0, originalFile |-> ""]

Uploads ==
    UNION { { [i \in 1..n |-> UploadedFile(UploadNames[i], lengths[i])] :
                lengths \in [1..n -> UploadLengths] } : n \in 1..MaxChunkedFiles }

InitChunker ==
    /\ variant = "chunker"
    /\ pc = "call"
    /\ NoRun
    /\ callArgs \in [fn : {"chunkFiles"}, files : Uploads]
    /\ callResult = NoCall

\* One call of chunkFiles.
CallChunker ==
    /\ pc = "call"
    /\ callArgs.fn = "chunkFiles"
    /\ callResult' = [fn |-> "chunkFiles", chunkedFiles |-> chunkFiles(callArgs.files)]
    /\ pc' = "returned"
    /\ UNCHANGED <<variant, files, idx, verified, attempts, transformedContent,
                   currentInstructions, projectManifest, results, finalizedProject,
                   request, batch, passed, attemptManifest, writes, synthRuns, outcomes,
                   raised, lane, callArgs, rawOutput, diagnostics>>

NextChunker ==
    \/ CallChunker

SpecChunker == InitChunker /\ [][NextChunker]_vars

----------------------------------------------------------------------------
(* The attempt cycle in the other revisions of the orchestrator:           *)
(* unnamed/part_007 (handled by the actions of the single-output           *)
(* orchestrator), utils/titanOrchestrator.js and                           *)
(* utils/_legacy_titan/titanOrchestrator.js (runTitanTransformation)       *)

\* Most input files of a run of one of the revisions.
MaxRevisionFiles == 1

\* while (!validation.success && attempts < 6) of the legacy revision.
MaxLegacyAttempts == 6

AttemptBound(v) == IF v = "legacy_titan" THEN MaxLegacyAttempts ELSE MaxAttempts

\* while (!validation.success && attempts < N)
TitanContinues(v, success, a) == ~success /\ a < AttemptBound(v)

\* What transformCode may resolve to in a run of runTitanTransformation:
\* the outputs of RawOutputs, or code written against UIKit.
TitanOutputs(file) ==
    RawOutputs(file) \cup {<<"import", "UIKit", "class", "Foo", "{", "}">>}

\* The names of containsForbiddenUIKit, and of the tests for UIApplication,
\* UIWindow and @main that follow it, that are whole tokens. The tests for
\* an imperative NavigationLink and for an App struct are left out: no
\* output of TitanOutputs holds either.
ForbiddenNames == {"UIKit", "UIViewController", "UIView", "UIWindow", "UIApplication",
                   "AppDelegate", "SceneDelegate", "@main"}

\* clean.match(/<fence>(?:swift)?\s*([\s\S]*?)<fence>/i): what stands
\* between the first fence and the next one, or the whole text.
FencedPart(s) ==
    LET i == IndexIn(s, Fences, 1)
        j == IF i = 0 THEN 0 ELSE IndexIn(s, Fences, i + 1)
    IN  IF i = 0 \/ j = 0 THEN s
        ELSE OpeningRest(s[i]) \o SubSeq(s, i + 1, j - 1)

\* sanitizeOutput(text) of the legacy revision: the fenced part of the
\* text, or nothing when the text is empty or holds a forbidden name.
legacySanitizeOutput(text) ==
    IF text = <<>> THEN <<>>
    ELSE LET clean == FencedPart(text)
         IN  IF clean = <<>> \/ Range(clean) \cap ForbiddenNames # {} THEN <<>> ELSE clean

\* const keywords = [/\bimport\s+/, /\bstruct\b/, /\bclass\b/]: the
\* earliest match, or 0.
RECURSIVE TitanStart(_, _)
TitanStart(s, from) ==
    IF from > Len(s) THEN 0
    ELSE IF s[from] \in {"struct", "class"} \/ (s[from] = "import" /\ from < Len(s))
         THEN from
         ELSE TitanStart(s, from + 1)

\* if (start !== -1) clean = clean.substring(start);
\* if (lastBrace !== -1) clean = clean.substring(0, lastBrace + 1);
TitanCut(s) ==
    LET start == TitanStart(s, 1)
        cut == IF start = 0 THEN s ELSE SubSeq(s, start, Len(s))
        lastBrace == LastIndexIn(cut, {"}"}, Len(cut))
    IN  IF lastBrace = 0 THEN cut ELSE SubSeq(cut, 1, lastBrace)

\* The field sanitized of sanitizeOutput(text, filePath) of
\* utils/titanOrchestrator.js. The patch of UIKit view controllers and the
\* removal of Route, TitanRootView, ContentView and @main declarations are
\* left out: no output of TitanOutputs holds one of them.
titanSanitizeOutput(text, filePath) ==
    IF text = <<>> THEN <<>>
    ELSE CHOOSE out \in
            { IF IsUserEntityPath(filePath) THEN b ELSE RemoveUserModel(b, 1) :
                b \in { ReplaceDataClass(a) :
                    a \in { TitanCut(c) : c \in {StripFences(text)} } } } : TRUE

\* prompt += "PREVIOUS ERROR: " + validation.error, from the second attempt
\* on, in utils/titanOrchestrator.js: the prompt is built anew in every
\* attempt and carries the diagnostic validation holds. The prompt of the
\* legacy revision is a constant.
TitanPrompt(v, a, lastError) == IF v = "titan" /\ a > 1 THEN lastError ELSE <<>>

\* The head of the while loop of runTitanTransformation up to the call of
\* transformCode. currentInstructions holds validation.error, as a list
\* of at most one diagnostic.
TitanBeginAttempt ==
    /\ pc = "loop"
    /\ variant \in Titans
    /\ HasFile(idx, files)
    /\ TitanContinues(variant, verified, attempts)
    /\ attempts' = NextAttempt(attempts)
    /\ request' = [NoRequest EXCEPT
                      !.file = idx,
                      !.instructions = TitanPrompt(variant, attempts', currentInstructions)]
    /\ pc' = "oracle"
    /\ UNCHANGED <<variant, files, idx, verified, transformedContent, currentInstructions,
                   projectManifest, results, finalizedProject, batch, passed,
                   attemptManifest, writes, synthRuns, outcomes, raised, lane,
                   callArgs, callResult, rawOutput, diagnostics>>

\* Where the answer of transformCode leaves the loop body. Legacy
\* revision: if (!result || !result.transformedCode) continue; and
\* if (!clean) continue;. utils/titanOrchestrator.js goes on to
\* validateSwiftCode whatever the sanitizer left.
AfterTitanSanitize(v, raw, clean) ==
    IF v = "legacy_titan" /\ (raw = <<>> \/ clean = <<>>) THEN "loop" ELSE "validate"

\* transformCode resolved in runTitanTransformation and the output is
\* sanitized.
TitanOracleReturn ==
    /\ pc = "oracle"
    /\ variant \in Titans
    /\ \E raw \in TitanOutputs(files[idx]) :
         \E clean \in { IF variant = "titan"
                        THEN titanSanitizeOutput(raw, files[idx].path)
                        ELSE legacySanitizeOutput(raw) } :
            /\ pc' = AfterTitanSanitize(variant, raw, clean)
            /\ transformedContent' = clean
            /\ rawOutput' = IF pc' = "loop" THEN <<>> ELSE raw
    /\ request' = NoRequest
    /\ UNCHANGED <<variant, files, idx, verified, attempts, currentInstructions,
                   projectManifest, results, finalizedProject, batch, passed,
                   attemptManifest, writes, synthRuns, outcomes, raised, lane,
                   callArgs, callResult, diagnostics>>

\* transformCode rejected. utils/titanOrchestrator.js catches the error and
\* leaves the while loop (break); the legacy revision catches nothing and
\* the promise of runTitanTransformation rejects.
TitanOracleThrows ==
    /\ pc = "oracle"
    /\ variant \in Titans
    /\ pc' = IF variant = "titan" THEN "broken" ELSE AfterThrow
    /\ raised' = IF variant = "titan" THEN raised ELSE raised \cup {idx}
    /\ request' = NoRequest
    /\ UNCHANGED <<variant, files, idx, verified, attempts, transformedContent,
                   currentInstructions, projectManifest, results, finalizedProject,
                   batch, passed, attemptManifest, writes, synthRuns, outcomes, lane,
                   callArgs, callResult, rawOutput, diagnostics>>

\* validateSwiftCode returned in runTitanTransformation: validation is
\* replaced, and on success saveToIosProject writes the file.
TitanValidateReturn ==
    /\ pc = "validate"
    /\ variant \in Titans
    /\ \E validation \in Validations :
         IF validation.success
         THEN /\ verified' = TRUE
              /\ results' = Append(results, [path |-> files[idx].path,
                                             transformedContent |-> transformedContent,
                                             verified |-> TRUE])
              /\ UNCHANGED <<currentInstructions, diagnostics>>
         ELSE /\ currentInstructions' = <<validation.error>>
              /\ diagnostics' = Append(diagnostics, validation.error)
              /\ UNCHANGED <<verified, results>>
    /\ pc' = "loop"
    /\ rawOutput' = <<>>
    /\ UNCHANGED <<variant, files, idx, attempts, transformedContent, projectManifest,
                   finalizedProject, request, batch, passed, attemptManifest, writes,
                   synthRuns, outcomes, raised, lane, callArgs, callResult>>

\* The while loop of runTitanTransformation is left, by its condition or
\* by break, and the for loop moves on.
TitanEndCycle ==
    /\ variant \in Titans
    /\ HasFile(idx, files)
    /\ \/ pc = "loop" /\ ~TitanContinues(variant, verified, attempts)
       \/ pc = "broken"
    /\ idx' = NextFile(idx)
    /\ outcomes' = Append(outcomes, verified)
    /\ verified' = FALSE
    /\ attempts' = 0
    /\ transformedContent' = <<>>
    /\ currentInstructions' = <<>>
    /\ diagnostics' = <<>>
    /\ pc' = "loop"
    /\ UNCHANGED <<variant, files, projectManifest, results, finalizedProject, request,
                   batch, passed, attemptManifest, writes, synthRuns, raised, lane,
                   callArgs, callResult, rawOutput>>

\* The for loop of runTitanTransformation is over.
TitanDone ==
    /\ pc = "loop"
    /\ variant \in Titans
    /\ ~HasFile(idx, files)
    /\ pc' = "done"
    /\ UNCHANGED <<variant, files, idx, verified, attempts, transformedContent,
                   currentInstructions, projectManifest, results, finalizedProject,
                   request, batch, passed, attemptManifest, writes, synthRuns, outcomes,
                   raised, lane, callArgs, callResult, rawOutput, diagnostics>>

InitRevisions ==
    /\ variant \in {"single", "multi", "part_007", "titan", "legacy_titan"}
    /\ files \in FileLists(MaxRevisionFiles)
    /\ RunStart

NextRevisions ==
    \/ Next
    \/ TitanBeginAttempt
    \/ TitanOracleReturn
    \/ TitanOracleThrows
    \/ TitanValidateReturn
    \/ TitanEndCycle
    \/ TitanDone

SpecRevisions == InitRevisions /\ [][NextRevisions]_vars







----------------------------------------------------------------------------
(* The validator: validateSwiftCode(code) of validator/codexiaValidator.js *)
(* in its two revisions that return { success, error }                     *)

\* Most lines of a diagnostic of the compiler.
MaxDiagnosticLines == 3

\* The revisions differ in how the code reaches swiftc: on stdin (line 33)
\* or in a temporary file (line 137).
ValidatorRevisions == {"stdin", "file"}

\* A value that is no string.
NotAString == <<"undefined">>

\* The codes a caller may pass: nothing, the empty string, Swift code.
ValidatorCodes == {NotAString, <<>>, <<"struct", "Account", "{", "}">>}

\* if (!code || typeof code !== 'string')
IsInvalidCode(code) == code = <<>> \/ code = NotAString

\* A line of the compiler about a module it cannot resolve.
ModuleLine == "no such module"

\* Lines the compiler may write to stderr: the unresolved module, two
\* syntax errors and an unknown name.
DiagnosticLines == {ModuleLine, "expected '{' in class", "consecutive statements",
                    "cannot find 'Modifier' in scope"}

\* result.stderr was not set.
NoStderr == <<"<null>">>

\* What spawnSync('swiftc', ['-parse', ...]) may return: an exit status and
\* the diagnostic, a list of lines.
CompilerRuns ==
    [status : {0, 1},
     stderr : {NoStderr} \cup UNION { [1..n -> DiagnosticLines] : n \in 0..MaxDiagnosticLines }]

\* result.stderr ? result.stderr.toString() : "Unknown Compiler Error"
ErrorMessage(run) ==
    IF run.stderr = NoStderr \/ run.stderr = <<>>
    THEN <<"Unknown Compiler Error">>
    ELSE run.stderr

\* analyzeError(error): the hint for the first fragment it knows, or the
\* diagnostic itself.
analyzeError(error) ==
    CASE "cannot find 'Modifier' in scope" \in Range(error) -> <<"CRITICAL">>
      [] "expected '{' in class" \in Range(error) -> <<"SYNTAX ERROR">>
      [] "consecutive statements" \in Range(error) -> <<"KOTLIN DETECTED">>
      [] OTHER -> error

\* const isModuleError = errorMessage.includes("no such module")
IsModuleError(errorMessage) == ModuleLine \in Range(errorMessage)

\* validateSwiftCode(code), given what the compiler run returns.
validateSwiftCode(code, run) ==
    IF IsInvalidCode(code)
    THEN [success |-> FALSE, error |-> <<"Empty or invalid code received.">>]
    ELSE IF run.status # 0
         THEN IF IsModuleError(ErrorMessage(run))
              THEN [success |-> TRUE]
              ELSE [success |-> FALSE, error |-> ErrorMessage(run),
                    suggestion |-> analyzeError(ErrorMessage(run))]
         ELSE [success |-> TRUE]

InitValidator ==
    /\ variant = "validator"
    /\ pc = "call"
    /\ NoRun
    /\ callArgs \in [fn : {"validateSwiftCode"}, revision : ValidatorRevisions,
                     code : ValidatorCodes]
    /\ callResult = NoCall

\* One call of validateSwiftCode: the compiler runs, unless the code is
\* turned down before, and the result is made from what it returned.
CallValidator ==
    /\ pc = "call"
    /\ callArgs.fn = "validateSwiftCode"
    /\ \E run \in CompilerRuns :
         callResult' = [fn |-> "validateSwiftCode",
                        compiled |-> ~IsInvalidCode(callArgs.code),
                        run |-> IF IsInvalidCode(callArgs.code)
                                THEN [status |-> 0, stderr |-> NoStderr] ELSE run,
                        result |-> validateSwiftCode(callArgs.code, run)]
    /\ pc' = "returned"
    /\ UNCHANGED <<variant, files, idx, verified, attempts, transformedContent,
                   currentInstructions, projectManifest, results, finalizedProject,
                   request, batch, passed, attemptManifest, writes, synthRuns, outcomes,
                   raised, lane, callArgs, rawOutput, diagnostics>>

NextValidator ==
    \/ CallValidator

SpecValidator == InitValidator /\ [][NextValidator]_vars







----------------------------------------------------------------------------
(* Runs of either orchestrator on lists of up to two files                 *)

\* Longest list of input files of these runs.
MaxPairFiles == 2

InitPairs ==
    /\ variant \in {"single", "multi"}
    /\ files \in FileLists(MaxPairFiles)
    /\ RunStart

SpecPairs == InitPairs /\ [][Next]_vars







----------------------------------------------------------------------------
(* streamTransformedCode of utils/streamingHelpers.js: the transformed     *)
(* code sent as server-sent events                                         *)

\* Longest transformed code of these calls, in characters.
MaxCodeLen == 4

\* Largest chunk size of these calls: the code's default is 100, the sizes
\* here are scaled to the length of the codes.
MaxChunkSize == 3

\* The values of result.transformedCode: strings, and what a result without
\* the field gives.
SseCodes ==
    UNION { [1..n -> {"a", "b"}] : n \in 0..MaxCodeLen } \cup {NotAString}

\* Messages of the event stream as sendSSEMessage writes them.
ConnectedMessage == [type |-> "connected", data |-> <<>>, index |-> 0, total |-> 0]
ChunkMessage(chunk, index, total) ==
    [type |-> "chunk", data |-> chunk, index |-> index, total |-> total]
CompleteMessage(totalChunks) ==
    [type |-> "complete", data |-> <<>>, index |-> 0, total |-> totalChunks]
ErrorMessageOf(code) ==
    [type |-> "error", data |-> code, index |-> 0, total |-> 0]

\* transformedCode.substring(i, i + chunkSize), i counted from 0.
Substring(code, i, chunkSize) ==
    SubSeq(code, i + 1, IF i + chunkSize < Len(code) THEN i + chunkSize ELSE Len(code))

\* A faulty split that keeps the full chunks only.
CodeChunksMutant(code, chunkSize) ==
    [k \in 1..(Len(code) \div chunkSize) |->
        Substring(code, (k - 1) * chunkSize, chunkSize)]

\* for (let i = 0; i < transformedCode.length; i += chunkSize)
\*     chunks.push(transformedCode.substring(i, i + chunkSize))
CodeChunks(code, chunkSize) ==
    [k \in 1..((Len(code) + chunkSize - 1) \div chunkSize) |->
        Substring(code, (k - 1) * chunkSize, chunkSize)]

\* The connection as the client has it: the messages written, whether the
\* response was ended, and the loop's next chunk.
NoEvents == [fn |-> "sse", written |-> <<>>, ended |-> FALSE, status |-> 0, next |-> 1]

InitSse ==
    /\ variant = "sse"
    /\ pc = "setup"
    /\ NoRun
    /\ callArgs \in [fn : {"sse"}, code : SseCodes, chunkSize : 1..MaxChunkSize]
    /\ callResult = NoEvents

\* setupSSEConnection(res): res.writeHead(200, ...) and the connected
\* message. The split follows; transformedCode.length throws when the code
\* is undefined.
SseSetup ==
    /\ pc = "setup"
    /\ callArgs.fn = "sse"
    /\ callResult' = [callResult EXCEPT !.written = Append(@, ConnectedMessage),
                                        !.status = 200]
    /\ pc' = IF callArgs.code = NotAString THEN "catch" ELSE "chunks"
    /\ StreamFrame

\* await new Promise(resolve => setTimeout(resolve, 50));
\* sendCodeChunk(res, chunks[i], i + 1, chunks.length)
SseChunk ==
    /\ pc = "chunks"
    /\ callArgs.fn = "sse"
    /\ LET chunks == CodeChunks(callArgs.code, callArgs.chunkSize)
       IN  /\ callResult.next <= Len(chunks)
           /\ callResult' = [callResult EXCEPT
                                !.written = Append(@, ChunkMessage(chunks[callResult.next],
                                                                   callResult.next, Len(chunks))),
                                !.next = @ + 1]
    /\ pc' = pc
    /\ StreamFrame

\* sendCompletion(res, {totalChunks, totalCharacters}); closeSSEConnection(res)
SseComplete ==
    /\ pc = "chunks"
    /\ callArgs.fn = "sse"
    /\ LET chunks == CodeChunks(callArgs.code, callArgs.chunkSize)
       IN  /\ callResult.next > Len(chunks)
           /\ callResult' = [callResult EXCEPT
                                !.written = Append(@, CompleteMessage(Len(chunks))),
                                !.ended = TRUE]
    /\ pc' = "settled"
    /\ StreamFrame

\* catch (error) { sendError(res, error.message); closeSSEConnection(res) }
SseCatch ==
    /\ pc = "catch"
    /\ callArgs.fn = "sse"
    /\ callResult' = [callResult EXCEPT
                         !.written = Append(@, ErrorMessageOf(callArgs.code)),
                         !.ended = TRUE]
    /\ pc' = "settled"
    /\ StreamFrame

NextSse ==
    \/ SseSetup
    \/ SseChunk
    \/ SseComplete
    \/ SseCatch

\* The timers of the loop fire: a step that can be taken is taken.
SpecSse == InitSse /\ [][NextSse]_vars /\ WF_vars(NextSse)



----------------------------------------------------------------------------
(* validateNavigationGraph(allFiles) of utils/navigationGraphValidator.js  *)
(* with detectCircularNavigation. A file is given by what the two regular  *)
(* expressions find in its content: the cases of its enum Route and the    *)
(* routes of its path.append(Route.x) calls, in the order of the text. The *)
(* field screen names the route whose destination the file is; the code    *)
(* does not read it.                                                       *)

\* Longest list of files of these calls.
MaxNavFiles == 2

\* Most navigation calls in one file.
MaxNavCalls == 2

\* Names of routes; "root" is also the one key of the graph the code builds.
RouteNames == {"home", "detail", "root"}

\* What the files of a project may declare in enum Route.
EnumCases == { <<>>, <<"home", "detail">> }

NavFiles ==
    [screen : RouteNames,
     cases : EnumCases,
     calls : UNION { [1..n -> RouteNames] : n \in 0..MaxNavCalls }]

NavFileLists == UNION { [1..n -> NavFiles] : n \in 0..MaxNavFiles }

\* for (const file of allFiles) extract...(file.content).forEach(push):
\* the entries of the field f of the files from file i on, in order.
RECURSIVE Collected(_, _, _)
Collected(allFiles, f, i) ==
    IF i > Len(allFiles) THEN <<>>
    ELSE allFiles[i][f] \o Collected(allFiles, f, i + 1)

\* graph["root"] holds every call; a project without a call has no key.
BuildGraph(allCalls) ==
    IF allCalls = <<>> THEN [node \in {} |-> <<>>] ELSE [node \in {"root"} |-> allCalls]

\* graph[node] || []
Neighbors(graph, node) == IF node \in DOMAIN graph THEN graph[node] ELSE <<>>

\* dfs(node) with the sets visited and stack of the enclosing call: the
\* answer and the set visited after it. DfsEach is the loop over the
\* neighbours, which returns with the first neighbour that answers true.
RECURSIVE Dfs(_, _, _, _)
RECURSIVE DfsEach(_, _, _, _, _)
Dfs(graph, node, visited, stack) ==
    IF node \in stack THEN [cycle |-> TRUE, visited |-> visited]
    ELSE IF node \in visited THEN [cycle |-> FALSE, visited |-> visited]
    ELSE DfsEach(graph, Neighbors(graph, node), 1, visited \cup {node}, stack \cup {node})

DfsEach(graph, neighbors, i, visited, stack) ==
    IF i > Len(neighbors) THEN [cycle |-> FALSE, visited |-> visited]
    ELSE LET found == Dfs(graph, neighbors[i], visited, stack)
         IN  IF found.cycle THEN found
             ELSE DfsEach(graph, neighbors, i + 1, found.visited, stack)

\* for (const node of Object.keys(graph)) if (dfs(node)) return true
RECURSIVE DfsKeys(_, _, _)
DfsKeys(graph, keys, visited) ==
    IF keys = {} THEN FALSE
    ELSE LET node == CHOOSE k \in keys : TRUE
             found == Dfs(graph, node, visited, {})
         IN  found.cycle \/ DfsKeys(graph, keys \ {node}, found.visited)

detectCircularNavigation(graph) == DfsKeys(graph, DOMAIN graph, {})

validateNavigationGraph(allFiles) ==
    LET allRoutes == Range(Collected(allFiles, "cases", 1))
        allCalls == Collected(allFiles, "calls", 1)
    IN  [fn |-> "validateNavigationGraph",
         allRoutes |-> allRoutes,
         allCalls |-> allCalls,
         missingRoutes |-> SelectSeq(allCalls, LAMBDA c : c \notin allRoutes),
         orphanedRoutes |-> allRoutes \ Range(allCalls),
         hasCycle |-> detectCircularNavigation(BuildGraph(allCalls))]

NoValidation ==
    [fn |-> "validateNavigationGraph", allRoutes |-> {}, allCalls |-> <<>>,
     missingRoutes |-> <<>>, orphanedRoutes |-> {}, hasCycle |-> FALSE]

InitNavigation ==
    /\ variant = "navigation"
    /\ pc = "call"
    /\ NoRun
    /\ callArgs \in [fn : {"validateNavigationGraph"}, allFiles : NavFileLists]
    /\ callResult = NoValidation

CallNavigation ==
    /\ pc = "call"
    /\ callArgs.fn = "validateNavigationGraph"
    /\ callResult' = validateNavigationGraph(callArgs.allFiles)
    /\ pc' = "returned"
    /\ UNCHANGED <<variant, files, idx, verified, attempts, transformedContent,
                   currentInstructions, projectManifest, results, finalizedProject,
                   request, batch, passed, attemptManifest, writes, synthRuns, outcomes,
                   raised, lane, callArgs, rawOutput, diagnostics>>

NextNavigation ==
    \/ CallNavigation

SpecNavigation == InitNavigation /\ [][NextNavigation]_vars

----------------------------------------------------------------------------
(* Properties of a run *)

\* return { success: true, projectSummary: projectManifest, files: finalizedProject }
ReturnedSuccess == TRUE


\* The returned object has the keys success, projectSummary and files: it
\* carries no list of errors.
ErrorEntries == <<>>

\* C1: when the batch transform has returned, the number of result entries
\* plus the number of error entries equals the number of input files, so
\* that no input file is dropped.
C1_EveryFileRepresented ==
    pc = "done" => Len(finalizedProject) + Len(ErrorEntries) = Len(files)

\* C2: a cycle in which the compiler oracle accepted no candidate ends only
\* after exactly MaxAttempts attempts, with verified = false.
C2_ExhaustedAfterMaxAttempts ==
    [][(idx' # idx /\ ~passed) => (attempts = MaxAttempts /\ ~verified)]_vars

\* C2 witness: three attempts were made, the compiler rejected each of
\* them, and the cycle is about to end unverified.
C2_Witness ==
    /\ pc = "loop"
    /\ attempts = MaxAttempts
    /\ ~verified
    /\ ~passed
    /\ Len(currentInstructions) = MaxAttempts

C4_FailedAttemptKeepsManifest ==
    (pc = "loop" /\ ~verified) => projectManifest = attemptManifest

\* C5: once a source name is a key of the manifest's mappings, its target
\* name never changes.
C5_FirstWriterWins ==
    [][\A k \in Keys(projectManifest.mappings) :
          /\ HasKey(projectManifest'.mappings, k)
          /\ Get(projectManifest'.mappings, k) = Get(projectManifest.mappings, k)]_vars

\* C6: no key of the mappings, no element of the definitions and no key of
\* the file exports is ever removed from the manifest.
C6_ManifestOnlyGrows ==
    [][/\ Keys(projectManifest.mappings) \subseteq Keys(projectManifest'.mappings)
       /\ Range(projectManifest.definitions) \subseteq Range(projectManifest'.definitions)
       /\ Keys(projectManifest.fileExports) \subseteq Keys(projectManifest'.fileExports)]_vars

\* C6 witness: the manifest holds two mappings, and one of its keys was
\* written twice with different target names.
C6_Witness ==
    /\ Len(projectManifest.mappings) >= 2
    /\ \E w1, w2 \in writes : w1.key = w2.key /\ w1.value # w2.value

\* C7: every request to the transformation oracle is made for the file the
\* for loop stands at, and carries in its mappings every entry that an
\* earlier file of the run has written.
C7_RequestCarriesEarlierEntries ==
    pc = "oracle" =>
        /\ request.file = idx
        /\ \A w \in writes :
             w.file < request.file =>
                 /\ HasKey(request.mappings, w.key)
                 /\ Get(request.mappings, w.key) = w.value

\* C8: the synthesis pass runs once, when the cycle of every input file is
\* over; the run returns with it, and afterwards no request is made, no
\* attempt is counted and the manifest is not written.
C8_SynthesisOnceAtJoin ==
    [][/\ synthRuns' # synthRuns =>
            (synthRuns = 0 /\ synthRuns' = 1 /\ idx = Len(files) + 1 /\ request = NoRequest)
       /\ pc' = "done" => synthRuns' = 1
       /\ synthRuns > 0 =>
            UNCHANGED <<pc, idx, attempts, request, projectManifest, writes>>]_vars

\* C8 witness: the run has returned after the cycles of several files, with
\* the synthesis pass run once.
C8_Witness ==
    /\ pc = "done"
    /\ synthRuns = 1
    /\ Len(files) >= 2
    /\ Len(finalizedProject) >= 2

\* Every token of the content that is a key of the mappings replaced by the
\* value of that key, all of them at once.
SubstituteEach(content, mappings) ==
    [j \in 1..Len(content) |->
        IF HasKey(mappings, content[j]) THEN Get(mappings, content[j]) ELSE content[j]]

\* C9: in the returned files every whole-word occurrence of a key of the
\* mappings stands replaced by the value of that key.
C9_EveryKeySubstituted ==
    pc = "done" =>
        \A i \in 1..Len(results) :
            finalizedProject[i].transformedContent =
                NormalizeTypes(SubstituteEach(results[i].transformedContent,
                                              projectManifest.mappings))

\* C10: the synthesis pass applied to the returned files with the same
\* manifest changes nothing.
C10_SynthesisIdempotent ==
    pc = "done" => Synthesize(finalizedProject, projectManifest.mappings) = finalizedProject

\* C11: an exhausted file cancels and shortens no other cycle: the for loop
\* goes on to the very next file, and once a file was exhausted every
\* later cycle still ends only verified or after MaxAttempts attempts, a
\* file whose candidate the compiler accepted being returned verified.
C11_ExhaustionIsIsolated ==
    [][idx' # idx =>
          /\ idx' = idx + 1
          /\ Len(outcomes') = idx
          /\ (\E j \in 1..Len(outcomes) : ~outcomes[j]) =>
                /\ verified \/ attempts = MaxAttempts
                /\ variant = "single" => verified = passed
                /\ verified => (results' # <<>> /\ results'[Len(results')].verified)]_vars

\* C11 witness: the run has returned; an earlier file ended exhausted and a
\* later file is returned verified.
C11_Witness ==
    /\ pc = "done"
    /\ \E j, k \in 1..Len(outcomes) :
         /\ j < k
         /\ ~outcomes[j]
         /\ outcomes[k]
         /\ k <= Len(finalizedProject)
         /\ finalizedProject[k].verified

\* C12: when the cycle of a file has raised an exception, the run is not
\* aborted: it goes on and returns with success = false, the file in its
\* list of errors and the results of the other files.
C12_ExceptionIsIsolated ==
    raised # {} =>
        /\ pc # "rejected"
        /\ pc = "done" =>
              /\ ~ReturnedSuccess
              /\ Len(ErrorEntries) = Cardinality(raised)
              /\ Len(finalizedProject) + Len(ErrorEntries) >= Len(files)

C15_ExhaustedKeepsLastOutput ==
    [][(idx' # idx /\ ~verified) =>
          /\ Len(results') = Len(results) + 1
          /\ results'[Len(results')].path = files[idx].path
          /\ ~results'[Len(results')].verified
          /\ results'[Len(results')].transformedContent = transformedContent]_vars

\* C16: when the endpoint is unreachable or the call timed out, the oracle
\* client does not raise: its promise resolves with the marked placeholder
\* built from the contents of the request's messages.
C16_FallbackOnTransportFailure ==
    (pc = "returned" /\ callArgs.fn = "runCodexiaTransform"
        /\ callArgs.transport \in {"unreachable", "timeout"}) =>
        /\ ~callResult.raised
        /\ callResult.text \in { runInternalEngine(Combined(callArgs.messages, 1)),
                                 runInternalEngineFallback(Combined(callArgs.messages, 1)) }

\* How often a value occurs in a list.
Occurrences(x, list) == Cardinality({i \in 1..Len(list) : list[i] = x})

ClassifierReturned == pc = "returned" /\ callArgs.fn = "classifyFiles"

\* C17: classifyFiles partitions its input: no file is in both lists, the
\* lists hold input files only, and every input file is in the two lists
\* together exactly as often as it is in the input.
C17_ClassifierPartitions ==
    ClassifierReturned =>
        LET seq == callResult.sequential
            par == callResult.parallel
        IN  /\ \A i \in 1..Len(seq) : \A j \in 1..Len(par) : seq[i] # par[j]
            /\ \A i \in 1..Len(seq) : Occurrences(seq[i], callArgs.files) > 0
            /\ \A i \in 1..Len(par) : Occurrences(par[i], callArgs.files) > 0
            /\ \A i \in 1..Len(callArgs.files) :
                  Occurrences(callArgs.files[i], seq) + Occurrences(callArgs.files[i], par)
                     = Occurrences(callArgs.files[i], callArgs.files)
            /\ Len(seq) + Len(par) = Len(callArgs.files)

C17_Witness ==
    /\ ClassifierReturned
    /\ Len(callResult.sequential) = 1
    /\ Len(callResult.parallel) = 1

\* The score the specification gives a file: 2 for each path keyword in the
\* lower-cased path, 1 for each content keyword in the lower-cased content.
KeywordScore(file) ==
    2 * Cardinality({k \in 1..Len(nameSignals) :
                        includes(toLowerCase(file.path), nameSignals[k])})
    + Cardinality({k \in 1..Len(contentSignals) :
                        includes(toLowerCase(file.content), contentSignals[k])})

UserViewModelPath == <<"U", "s", "e", "r", "V", "i", "e", "w", "M", "o", "d", "e", "l", ".", "k", "t">>

\* C18: a file is classified by its own path and content alone: it is in
\* the list sequential iff its keyword score is at least 2 and in the list
\* parallel otherwise, whatever the other files are; a file at the path
\* UserViewModel.kt is sequential whatever its content.
C18_ClassifiedByOwnScore ==
    ClassifierReturned =>
        \A i \in 1..Len(callArgs.files) :
            LET file == callArgs.files[i]
            IN  /\ Occurrences(file, callResult.sequential) > 0 <=> KeywordScore(file) >= 2
                /\ Occurrences(file, callResult.parallel) > 0 <=> KeywordScore(file) < 2
                /\ file.path = UserViewModelPath =>
                      Occurrences(file, callResult.sequential) > 0

C18_Witness ==
    /\ ClassifierReturned
    /\ \E i \in 1..Len(callResult.sequential) :
          /\ callResult.sequential[i].path = UserViewModelPath
          /\ callResult.sequential[i].content = <<>>
    /\ \E i \in 1..Len(callResult.parallel) : KeywordScore(callResult.parallel[i]) = 1

\* C19: sanitizer round trip: for raw text made of a fenced block with a
\* language tag followed by chatter, the sanitizer returns exactly the code
\* inside the fence.
C19_SanitizerRoundTrip ==
    (/\ pc = "returned"
     /\ callArgs.fn = "sanitizeOutput"
     /\ callArgs.fence \in {TaggedFence, UnknownTagFence}
     /\ callArgs.preamble = <<>>
     /\ callArgs.chatter # <<>>) =>
        callResult.text = callArgs.code

\* C20: the context holds one summary per input file, in input order, and
\* after the content of one file was changed the summary of every other
\* file is what it was before.
C20_SummariesIndependent ==
    (pc = "returned" /\ callArgs.fn = "buildProjectContext") =>
        /\ callResult.context.fileCount = Len(callArgs.files)
        /\ Len(callResult.context.files) = Len(callArgs.files)
        /\ \A i \in 1..Len(callArgs.files) :
              callResult.context.files[i].path = callArgs.files[i].path
        /\ callArgs.changed # 0 =>
              \A i \in 1..Len(callArgs.files) :
                  i # callArgs.changed =>
                      callResult.context.files[i] = callResult.previous.files[i]

C20_Witness ==
    /\ pc = "returned"
    /\ callArgs.fn = "buildProjectContext"
    /\ callArgs.changed = 1
    /\ Len(callArgs.files) = 2
    /\ callResult.context.files[1] # callResult.previous.files[1]
    /\ callResult.context.files[2].classes # <<>>
    /\ callResult.context.files[2].path # callResult.context.files[1].path

\* w is p with some of its elements left out, the order kept.
RECURSIVE IsSubsequence(_, _)
IsSubsequence(w, p) ==
    IF w = <<>> THEN TRUE
    ELSE IF p = <<>> THEN FALSE
    ELSE IF Head(w) = Head(p) THEN IsSubsequence(Tail(w), Tail(p))
    ELSE IsSubsequence(w, Tail(p))

\* The tokens of all lines of the chunks from chunk i on.
RECURSIVE ProducedFrom(_, _)
ProducedFrom(chunks, i) ==
    IF i > Len(chunks) THEN <<>>
    ELSE [k \in 1..Len(chunks[i]) |-> chunks[i][k].token] \o ProducedFrom(chunks, i + 1)

\* What the oracle produced, or the internal engine where it takes the
\* oracle's place.
Produced ==
    IF OracleAsked
    THEN ProducedFrom(callArgs.chunks, 1)
    ELSE IF callArgs.revision = "codexiaEngine.js"
         THEN FakeTokens(callArgs.messages)
         ELSE <<>>

WrittenTokens == SelectSeq(callResult.written, LAMBDA e : e # EndMarker)

\* The tokens are written in the order they were produced, and the end
\* marker is written at most once and is the last event.
StreamInOrder ==
    callArgs.fn = "stream" =>
        /\ IsSubsequence(WrittenTokens, Produced)
        /\ \A i \in 1..Len(callResult.written) :
              callResult.written[i] = EndMarker => i = Len(callResult.written)

\* C21: in a streaming response the tokens are written in the order the
\* oracle produced them, no token follows the end marker, and a response
\* that the route has left with events written ends with the end marker.
C21_StreamEndsWithOneMarker ==
    /\ StreamInOrder
    /\ (callArgs.fn = "stream" /\ pc \in {"settled", "pending"}
           /\ callResult.written # <<>>) =>
          callResult.written[Len(callResult.written)] = EndMarker

\* The default the specification documents for a field: those of
\* DEFAULT_TRANSFORM_OPTIONS, and 3 for maxAttempts.
DocumentedDefault(f) ==
    IF f = "maxAttempts" THEN "3" ELSE DEFAULT_TRANSFORM_OPTIONS[f]

\* The values a preset may give to a field.
PresetValues(f) == { PRESETS[k][f] : k \in PresetKeys } \ {Absent}

OptionsMerged == pc = "returned" /\ callArgs.fn = "mergeOptions"

\* The merged options give field f what the claim says.
FieldAsClaimed(f) ==
    IF callArgs.options[f] # Absent
    THEN callResult.merged[f] = callArgs.options[f]
    ELSE callResult.merged[f] \in {DocumentedDefault(f)} \cup PresetValues(f)

\* C22: in the merged options a field the caller set keeps the caller's
\* value, and a field the caller left unset has its documented default
\* (maxAttempts 3, temperature 0.2) or the value of a preset.
C22_DefaultsAndOverrides ==
    OptionsMerged =>
        /\ \A f \in OptionFields : FieldAsClaimed(f)
        /\ (callArgs.options["temperature"] = Absent /\ callArgs.options["preset"] = Absent) =>
              callResult.temperature = "0.2"

\* The paths whose content on disk differs from the content at the start.
ChangedOnDisk == {p \in DiskPaths : callResult.disk[p] # InitialDisk[p]}

\* C23: the strict patch mode writes only paths of its --files list.
C23_PatchOnlyAllowedFiles ==
    (callArgs.fn = "shell" /\ callArgs.cmd = "patch") =>
        callResult.written \subseteq Range(callArgs.allowedFiles)

\* C24: a line of the shell writes to disk only if it is :xformw or :patch,
\* and a file on disk differs from its first content only if a line wrote it.
C24_WritesOnlyByXformwOrPatch ==
    [][(callArgs'.fn = "shell" /\ callResult'.fn = "shell") =>
          /\ callResult'.written # {} => callArgs'.cmd \in {"xformw", "patch"}
          /\ \A p \in DiskPaths :
                callResult'.disk[p] # callResult.disk[p] =>
                    /\ callArgs'.cmd \in {"xformw", "patch"}
                    /\ p \in callResult'.written]_vars

C24_Witness ==
    /\ callArgs.fn = "shell"
    /\ callArgs.cmd = "prompt"
    /\ callArgs.out # <<>>
    /\ callResult.lines = 2
    /\ ChangedOnDisk = {"a.js"}

\* The entries of the result that belong to a file: the file itself, or its
\* chunks.
EntriesOf(file) ==
    SelectSeq(callResult.chunkedFiles,
              LAMBDA e : IF e.isChunk THEN e.originalFile = file.name ELSE e.name = file.name)

\* The chunks, in their order, are consecutive stretches of the text that
\* start where it starts and end where it ends.
JoinsTo(chunks, content) ==
    /\ chunks # <<>>
    /\ \A k \in 1..Len(chunks) : chunks[k].content.text = content.text
    /\ chunks[1].content.lo = content.lo
    /\ chunks[Len(chunks)].content.hi = content.hi
    /\ \A k \in 1..(Len(chunks) - 1) : chunks[k].content.hi = chunks[k + 1].content.lo

\* C25: chunkFiles returns a file of at most 5000 characters unchanged; a
\* longer file is returned as chunks of at most 5000 characters each, whose
\* contents joined in the order of chunkIndex are the content of the file,
\* and whose totalChunks is the number of chunks of the file.
C25_ChunksRebuildTheFile ==
    (pc = "returned" /\ callArgs.fn = "chunkFiles") =>
        \A i \in 1..Len(callArgs.files) :
            LET file == callArgs.files[i]
                entries == EntriesOf(file)
            IN  IF Length(file.content) <= 5000
                THEN entries = <<file>>
                ELSE /\ \A k \in 1..Len(entries) :
                          /\ entries[k].isChunk
                          /\ Length(entries[k].content) <= 5000
                          /\ Length(entries[k].content) > 0
                          /\ entries[k].chunkIndex = k - 1
                          /\ entries[k].totalChunks = Len(entries)
                     /\ JoinsTo(entries, file.content)

C25_Witness ==
    /\ pc = "returned"
    /\ callArgs.fn = "chunkFiles"
    /\ Len(callArgs.files) = 2
    /\ Length(callArgs.files[1].content) = 10001
    /\ Length(callArgs.files[2].content) = 5000
    /\ Len(callResult.chunkedFiles) = 4
    /\ Length(callResult.chunkedFiles[3].content) = 1

\* C26: whenever the single-output orchestrator calls the compiler oracle,
\* the code it hands over is the sanitizer's output for the oracle response
\* of the same attempt, never the response itself.
C26_CompilerSeesSanitizedOutput ==
    (pc = "validate" /\ variant \in SingleOutput)
        => transformedContent = sanitizeOutput(rawOutput, files[idx].path)

\* The revisions that test the sanitized output before the compiler call.
EmptyChecked == {"single", "multi", "legacy_titan"}

\* The code a pending call of the compiler oracle carries.
CompilerArgument == IF variant = "multi" THEN batch.sanitizedContent ELSE transformedContent

\* The oracle answered and the sanitizer left nothing of the answer.
EmptyAnswer ==
    /\ pc = "oracle"
    /\ variant \in {"single", "legacy_titan"}
    /\ pc' \in {"loop", "validate"}
    /\ transformedContent' = <<>>

\* Multi-file orchestrator: the sanitizer leaves nothing of the extracted
\* file that is next.
EmptyExtracted ==
    /\ pc = "extract"
    /\ batch.k <= Len(batch.extractedFiles)
    /\ sanitizeCode(batch.extractedFiles[batch.k].content,
                    batch.extractedFiles[batch.k].path) = <<>>

\* Multi-file orchestrator: the attempt is concluded and the sanitizer left
\* nothing of any file of the answer.
EmptyBatch ==
    /\ pc = "extract"
    /\ batch.k > Len(batch.extractedFiles)
    /\ \A i \in 1..Len(batch.extractedFiles) :
          sanitizeCode(batch.extractedFiles[i].content, batch.extractedFiles[i].path) = <<>>

\* The attempt ends as a failure that was counted.
FailedAndCounted ==
    /\ pc' = "loop"
    /\ ~verified'
    /\ attempts' = attempts
    /\ attempts \in 1..AttemptBound(variant)

C28_RequestCarriesAllDiagnostics ==
    (pc = "oracle" /\ variant \in {"single", "titan"})
        => IsSubsequence(diagnostics, request.instructions)

\* The compiler run of the call failed.
CompilerFailed ==
    /\ pc = "returned"
    /\ callArgs.fn = "validateSwiftCode"
    /\ callResult.compiled
    /\ callResult.run.status # 0

\* The diagnostic reports unresolved modules and nothing else.
OnlyModuleErrors(stderr) ==
    /\ stderr # NoStderr
    /\ stderr # <<>>
    /\ \A i \in 1..Len(stderr) : stderr[i] = ModuleLine

\* C29: a failing compiler run is a pass only when its diagnostic reports
\* nothing but an unresolved external module; a diagnostic that also
\* reports a syntax error is a validation failure.
C29_PassOnlyOnModuleErrorAlone ==
    CompilerFailed => (callResult.result.success <=> OnlyModuleErrors(callResult.run.stderr))

\* The raw text of the call holds none of the start-of-code anchors.
NoAnchorInRaw ==
    /\ pc = "returned"
    /\ callArgs.fn = "sanitizeOutput"
    /\ FirstAnchor(RawText(callArgs), 1) = 0

\* C30: when the raw oracle output holds no start-of-code anchor, the
\* sanitizer returns the empty string (which the cycle takes for a failed
\* attempt).
C30_NoAnchorGivesEmpty == NoAnchorInRaw => callResult.text = <<>>

\* The results a step has pushed.
Pushed == SubSeq(results', Len(results) + 1, Len(results'))

\* C31: a result is pushed as verified only if the compiler oracle has
\* accepted, in the attempt that ended the file's cycle, the content the
\* result holds; the multi-file orchestrator marks a file verified only if
\* every file extracted from the oracle output of that attempt passed the
\* compiler.
C31_VerifiedMeansAllValidated ==
    /\ [][(variant = "single" /\ Len(results') > Len(results) /\ Pushed[1].verified)
            => (passed /\ verified /\ Pushed[1].transformedContent = transformedContent)]_vars
    /\ [][(variant = "multi" /\ ~verified /\ verified')
            => /\ Len(batch.currentBatchResults) = Len(batch.extractedFiles)
               /\ Len(Pushed) = Len(batch.currentBatchResults)
               /\ \A i \in 1..Len(Pushed) :
                     Pushed[i].transformedContent = batch.currentBatchResults[i].content]_vars

\* C32: verified is terminal. While the file the loop stands at is
\* verified, no call of the transformation oracle or of the compiler oracle
\* is pending for it; the only step taken is the one that moves on to the
\* next file, which pushes the accepted content as it is; and no result
\* pushed before is ever changed.
C32_VerifiedIsTerminal ==
    /\ []((verified /\ variant \in {"single", "multi"})
             => (pc = "loop" /\ request = NoRequest /\ HasFile(idx, files)))
    /\ [][(verified /\ variant \in {"single", "multi"})
             => /\ idx' = idx + 1
                /\ ~verified'
                /\ variant = "single" =>
                      results' = Append(results, [path |-> files[idx].path,
                                                  transformedContent |-> transformedContent,
                                                  verified |-> TRUE])
                /\ variant = "multi" => results' = results]_vars
    /\ [][\A i \in 1..Len(results) : Len(results') >= i /\ results'[i] = results[i]]_vars

\* The second file is verified with attempts to spare, after a first file
\* that was verified too.
C32_Witness ==
    /\ verified
    /\ idx = 2
    /\ attempts < MaxAttempts
    /\ outcomes = <<TRUE>>
    /\ Len(results) >= 1

\* The diagnostics the notes of a request of the multi-file orchestrator
\* hold, in order, from note i on: a note is the list of the attempt's
\* validation errors, or the remark that the output was empty.
RECURSIVE BatchDiagnostics(_, _)
BatchDiagnostics(notes, i) ==
    IF i > Len(notes) THEN <<>>
    ELSE SelectSeq([k \in 1..Len(notes[i]) |-> notes[i][k].error],
                   LAMBDA e : e \in Diagnostics)
         \o BatchDiagnostics(notes, i + 1)

\* The diagnostics the notes of a request hold; a note of the single-output
\* orchestrator is one diagnostic.
RequestDiagnostics(v, notes) == IF v = "multi" THEN BatchDiagnostics(notes, 1) ELSE notes

\* C33: repair diagnostics do not leak between files. A pending oracle
\* request is for the file the loop stands at and holds exactly the
\* diagnostics of that file's own failed validations; the first request of
\* a file holds no note at all, only the manifest as it stands.
C33_NoDiagnosticLeak ==
    (pc = "oracle" /\ variant \in {"single", "multi"})
        => /\ request.file = idx
           /\ RequestDiagnostics(variant, request.instructions) = diagnostics
           /\ attempts = 1 =>
                 /\ request.instructions = <<>>
                 /\ request.mappings = projectManifest.mappings
                 /\ request.definitions = projectManifest.definitions

\* The first request of the second file, after a first file whose last
\* attempt failed validation.
C33_Witness ==
    /\ pc = "oracle"
    /\ idx = 2
    /\ attempts = 1
    /\ outcomes = <<FALSE>>
    /\ variant = "single"
    /\ results[1].transformedContent # <<>>

\* The manifest is well formed: no name twice in definitions, every value
\* of mappings among the definitions, and the keys of fileExports exactly
\* the definitions.
WellFormed(manifest) ==
    /\ \A i, j \in 1..Len(manifest.definitions) :
          manifest.definitions[i] = manifest.definitions[j] => i = j
    /\ \A k \in Keys(manifest.mappings) :
          Get(manifest.mappings, k) \in Range(manifest.definitions)
    /\ Keys(manifest.fileExports) = Range(manifest.definitions)
    /\ Len(manifest.fileExports) = Len(manifest.definitions)

HeadersSent == callArgs.fn = "stream" /\ callResult.status # 0

\* C35: a streaming response whose headers have been sent is eventually
\* ended, also when the oracle's stream breaks.
C35_SentResponseIsEnded == HeadersSent ~> callResult.ended

SseCall == callArgs.fn = "sse"

\* The messages of a kind among those written.
MessagesOf(type) == SelectSeq(callResult.written, LAMBDA m : m.type = type)

RECURSIVE JoinData(_, _)
JoinData(messages, i) ==
    IF i > Len(messages) THEN <<>> ELSE messages[i].data \o JoinData(messages, i + 1)

\* What is written so far is in the order connected, chunks with the
\* indexes 1, 2, ... , and then one complete or error message, which is
\* written together with the end of the response.
SseInOrder ==
    LET written == callResult.written
        n == Len(written)
        last == IF callResult.ended THEN n - 1 ELSE n
    IN  /\ n >= 1 => written[1] = ConnectedMessage
        /\ \A i \in 2..last : written[i].type = "chunk" /\ written[i].index = i - 1
        /\ callResult.ended =>
              /\ n >= 2
              /\ written[n].type \in {"complete", "error"}

\* The response of a call with a string is ended after the complete
\* message, and the chunks then give back the code.
SseComplete_Whole ==
    (callResult.ended /\ callArgs.code # NotAString) =>
        /\ callResult.written[Len(callResult.written)].type = "complete"
        /\ JoinData(MessagesOf("chunk"), 1) = callArgs.code
        /\ \A i \in 1..Len(MessagesOf("chunk")) : MessagesOf("chunk")[i].data # <<>>

\* C36: streamTransformedCode writes connected, the chunks 1 to n in order,
\* whose data joined are the transformed code, and complete, and ends the
\* response; a call that throws writes an error message and ends the
\* response too.
C36_EventsInOrderThenClosed ==
    /\ [](SseCall => SseInOrder /\ SseComplete_Whole)
    /\ [][SseCall /\ callResult.ended => UNCHANGED callResult]_vars
    /\ (SseCall /\ callArgs.code = NotAString) ~>
          (callResult.ended /\ callResult.written[Len(callResult.written)].type = "error")
    /\ SseCall ~> callResult.ended

\* A code of two chunks, the second shorter than the first, was sent whole
\* and the response ended.
C36_Witness ==
    /\ SseCall
    /\ callResult.ended
    /\ Len(callArgs.code) = 3
    /\ callArgs.chunkSize = 2
    /\ Len(callResult.written) = 4

\* No line of the output is a file header.
NoFileBlock(out) == \A i \in 1..Len(out) : out[i].kind # "header"

\* C37: a :patch whose output holds no file block applies nothing: the
\* disk after the line is the disk before it and no path is written.
C37_NoBlockNothingApplied ==
    [][(callArgs'.fn = "shell" /\ callArgs'.cmd = "patch" /\ NoFileBlock(callArgs'.out)) =>
           /\ callResult'.disk = callResult.disk
           /\ callResult'.written = {}]_vars

\* A :patch was answered with a line that mentions "=== FILE:" without
\* being a header, so the output went through the parser.
C37_Witness ==
    /\ callArgs.fn = "shell"
    /\ callArgs.cmd = "patch"
    /\ callArgs.out = <<MentionLine>>
    /\ callResult.promptBuilder = "exported"
    /\ callResult.written = {}

\* The navigation of a project: the screen of a file leads to every route
\* the file appends to the path.
NavigationEdges(allFiles) ==
    UNION { { <<allFiles[i].screen, allFiles[i].calls[j]>> :
                j \in 1..Len(allFiles[i].calls) } : i \in 1..Len(allFiles) }

\* The routes reached from the set of routes from in at most n steps.
RECURSIVE ReachedFrom(_, _, _)
ReachedFrom(edges, from, n) ==
    IF n = 0 THEN from
    ELSE ReachedFrom(edges, from \cup {e[2] : e \in {d \in edges : d[1] \in from}}, n - 1)

\* Some route leads back to itself.
CircularNavigation(allFiles) ==
    LET edges == NavigationEdges(allFiles)
    IN  \E e \in edges : e[1] \in ReachedFrom(edges, {e[2]}, Cardinality(RouteNames))

\* C38: hasCycle is true exactly when the navigation calls of the files
\* form a circular navigation between routes.
C38_HasCycleIffCircular ==
    (pc = "returned" /\ callArgs.fn = "validateNavigationGraph") =>
        (callResult.hasCycle <=> CircularNavigation(callArgs.allFiles))

====
